---------------------------- MODULE Spec2Model ----------------------------
(***************************************************************************)
(* A model of the zero-knowledge inequality pipeline of                    *)
(* solana-zk-proof-example: the inequality circuits (circuit.rs), the      *)
(* prover (prove.rs), the general verifier (verify.rs) and the on-chain    *)
(* prepared verifier (proof-verify/src/lib.rs).                            *)
(*                                                                         *)
(* Numbers.  TLC integers are 32 bits wide, the circuit works on u64       *)
(* inputs around 2^32 and on elements of the BN254 scalar field.  An       *)
(* integer is therefore kept as two limbs, [hi, lo] standing for           *)
(* hi * 2^15 + lo with 0 <= lo < 2^15 (hi carries the sign).  A field      *)
(* element is kept as its balanced representative: the integer v with      *)
(* |v| < 2^45 stands for v mod r.  Every value the circuits compute has    *)
(* magnitude below 2^33, far below r/2, so field equality is equality of   *)
(* representatives and the arithmetic below is exact, not scaled (TLC      *)
(* stops with an overflow error if a value ever left the range).           *)
(***************************************************************************)
EXTENDS Integers, Sequences, FiniteSets, TLC

VARIABLES
    newCall,          \* the arguments of the last new(x, y) call, if the circuit came from one
    circuit,          \* the circuit under construction: result of new()/default()
    synth,            \* result of generate_constraints on a fresh constraint system
    pubIn,            \* result of circuit.public_inputs()
    debug_assertions, \* whether the build compiles debug assertions in
    keyPairs,         \* the (proving key, verifying key) pairs returned by setup so far
    keyFiles,         \* what pk.bin and vk.bin hold
    setupResult,      \* outcome of the last setup call
    proveCall,        \* the arguments of the last generate_proof_package call
    proveResult,      \* its outcome
    proveLog,         \* the stages that call went through, in order
    verifyResult,     \* outcome of the last verify_proof_package call
    verifyArgs,       \* the arguments of the last verify (general verifier) call
    generalResult,    \* its outcome
    verifierArgs,     \* the arguments of Groth16VerifierPrepared::new
    verifier,         \* its outcome: the constructed verifier or the error
    pairingEquation,  \* whether the pairing equation holds of the bytes given to new
    pairingCalls,     \* the calls made to the pairing primitive: input buffer and result
    onchainResult,    \* outcome of the last Groth16VerifierPrepared::verify call
    setupPc,          \* concurrent setup calls: where each call stands
    setupLocal,       \* the key pair each call holds in its local variables
    setupReturn,      \* what each call returned
    diskFiles,        \* the contents of pk.bin and vk.bin in the working directory
    ledger,           \* the accounts of the chain: lamports and data of each
    instruction,      \* the last instruction the proof-verify program processed
    endianIn,         \* the buffer given to convert_endianness
    endianSize,       \* the OUTPUT_SIZE it was called with
    endianOut,        \* what it returned
    endianBack,       \* what convert_endianness returned on that output
    codecField,       \* the field element given to field_to_bytes
    codecBytes,       \* the buffer it returned
    codecBack,        \* what bytes_to_field returned on that buffer
    packageCall,      \* the last verify_proof_package call on a package of verifyArgs
    escrowChain,      \* the accounts of the escrow program and the token accounts
    escrowLast,       \* the last escrow instruction, the accounts before it and its result
    escrowLog,        \* the escrow instructions that succeeded so far
    commitChain,      \* the accounts of the commit-reveal program, its events and the clock
    commitLast        \* the last commit-reveal instruction, the chain before it and its result

varsCircuit == <<newCall, circuit, synth, pubIn>>

varsProver == <<debug_assertions, keyPairs, keyFiles, setupResult, proveCall, proveResult, proveLog, verifyResult>>

varsVerifier == <<verifyArgs, generalResult>>

varsOnChain == <<verifierArgs, verifier, pairingEquation, pairingCalls, onchainResult>>

varsRace == <<setupPc, setupLocal, setupReturn, diskFiles>>

varsProgram == <<ledger, instruction>>

varsEndian == <<endianIn, endianSize, endianOut, endianBack>>

varsCodec == <<codecField, codecBytes, codecBack>>

varsPackage == <<packageCall>>

varsEscrow == <<escrowChain, escrowLast, escrowLog>>

varsCommit == <<commitChain, commitLast>>

varsOther == <<varsRace, varsProgram, varsEndian, varsCodec, varsPackage, varsEscrow, varsCommit>>

vars == <<varsCircuit, varsProver, varsVerifier, varsOnChain, varsOther>>

\* the variables a circuit step and a prover step leave alone
varsNotCircuit == <<varsProver, varsVerifier, varsOnChain, varsOther>>

varsNotProver == <<varsVerifier, varsOnChain, varsOther>>

None == [none |-> TRUE]

Ok(v) == [ok |-> TRUE, val |-> v]

Err(e) == [ok |-> FALSE, err |-> e]

\* a call that does not return: the thread panics
Panic(m) == [ok |-> FALSE, panic |-> m]

IsErr(r, e) == r # None /\ ~r.ok /\ "err" \in DOMAIN r /\ r.err = e

IsPanic(r) == r # None /\ ~r.ok /\ "panic" \in DOMAIN r

IsOk(r) == r # None /\ r.ok

(***************************************************************************)
(* Two-limb integers.                                                      *)
(***************************************************************************)
Limb == 2^15

Big(h, l) == [hi |-> h + (l \div Limb), lo |-> l % Limb]

BigOfInt(n) == Big(0, n)

BigAdd(a, b) == Big(a.hi + b.hi, a.lo + b.lo)

BigNeg(a) == Big(-a.hi, -a.lo)

BigAbs(a) == IF a.hi < 0 THEN BigNeg(a) ELSE a

\* schoolbook product of two magnitudes
BigMulAbs(ma, mb) == Big(ma.hi * mb.hi * Limb + ma.hi * mb.lo + ma.lo * mb.hi, ma.lo * mb.lo)

BigSigned(negative, magnitude) == IF negative THEN BigNeg(magnitude) ELSE magnitude

\* the product of the magnitudes, then the sign
BigMul(a, b) == BigSigned((a.hi < 0) # (b.hi < 0), BigMulAbs(BigAbs(a), BigAbs(b)))

BigLess(a, b) == a.hi < b.hi \/ (a.hi = b.hi /\ a.lo < b.lo)

BigGeq(a, b) == ~BigLess(a, b)

\* 1u64 << i
Shl1(i) == IF i < 15 THEN Big(0, 2^i) ELSE Big(2^(i - 15), 0)

(***************************************************************************)
(* The BN254 scalar field Fr (ark_bn254::Fr).                              *)
(* r = 0x30644e72e131a029b85045b68181585d2833e84879b9709143e1f593f0000001  *)
(***************************************************************************)
\* r as the 32 little-endian bytes of its canonical serialization
RBytes == <<1, 0, 0, 240, 147, 245, 225, 67, 145, 112, 185, 121, 72, 232, 51, 40,
            93, 88, 129, 129, 182, 69, 80, 184, 41, 160, 49, 225, 114, 78, 100, 48>>

\* r mod 2^32 = 0xf0000001
RLow32 == Big(122880, 1)

FrZero == BigOfInt(0)

FrOne == BigOfInt(1)

\* Fr::from(x) for a u64 x (< r: no reduction)
FrFromU64(x) == x

\* Fr::from(-1i32)
FrNegOne == BigNeg(FrOne)

FrAdd(a, b) == BigAdd(a, b)

FrMul(a, b) == BigMul(a, b)

\* f.into_bigint() modulo 2^32: the low 32 bits of the canonical representative,
\* which is f itself when f >= 0 and r + f when f stands for a negative value.
\* Bit i < 32 of r + f is bit i of (r mod 2^32) + f in two's complement.
IntoBigIntLow32(f) == IF f.hi < 0 THEN BigAdd(RLow32, f) ELSE f

\* BigInt::get_bit(i), i < 32
BigIntGetBit(w, i) ==
    IF i < 15 THEN (w.lo \div 2^i) % 2 = 1 ELSE (w.hi \div 2^(i - 15)) % 2 = 1

\* f.into_bigint().get_bit(i), i < 32
GetBit(f, i) == BigIntGetBit(IntoBigIntLow32(f), i)

(***************************************************************************)
(* Rank-1 constraint systems (ark_relations::r1cs::ConstraintSystem) in    *)
(* proving mode.  instance[1] is the constant-one variable; Variable::     *)
(* Instance(k) is instance[k+1], Variable::Witness(k) is witness[k+1].     *)
(* A linear combination is a sequence of (coefficient, variable) terms.    *)
(***************************************************************************)
Some(v) == [some |-> v]

IsSome(o) == "some" \in DOMAIN o

NewCS == [instance |-> <<FrOne>>, witness |-> <<>>, constraints |-> <<>>]

VarOne == [t |-> "One", i |-> 0]

\* the variable cs.new_witness_variable is about to return
NextWitnessVar(cs) == [t |-> "Witness", i |-> Len(cs.witness)]

new_input_variable(cs, v) == [cs EXCEPT !.instance = Append(@, v)]

new_witness_variable(cs, v) == [cs EXCEPT !.witness = Append(@, v)]

\* lc!() + (coeff, var)
Term(coeff, var) == <<[coeff |-> coeff, var |-> var]>>

\* lc!() + var
LcVar(var) == Term(FrOne, var)

enforce_constraint(cs, a, b, c) == [cs EXCEPT !.constraints = Append(@, [a |-> a, b |-> b, c |-> c])]

num_instance_variables(cs) == Len(cs.instance)

AssignedValue(cs, var) ==
    IF var.t = "Witness" THEN cs.witness[var.i + 1] ELSE cs.instance[var.i + 1]

RECURSIVE EvalLc(_, _)
EvalLc(cs, lc) ==
    IF lc = <<>> THEN FrZero
    ELSE FrAdd(FrMul(Head(lc).coeff, AssignedValue(cs, Head(lc).var)), EvalLc(cs, Tail(lc)))

\* constraint number k (1-based, in the order enforced): a * b = c
ConstraintHolds(cs, k) ==
    LET q == cs.constraints[k]
    IN  FrMul(EvalLc(cs, q.a), EvalLc(cs, q.b)) = EvalLc(cs, q.c)

\* cs.is_satisfied()
is_satisfied(cs) == \A k \in 1..Len(cs.constraints) : ConstraintHolds(cs, k)

(***************************************************************************)
(* circuit.rs: the two inequality circuits.                                *)
(***************************************************************************)
RangeBits == 32

\* 1 << 32, the exclusive upper limit of both constructor arguments
RangeLimit == Shl1(RangeBits)

ExampleCircuit_default == [kind |-> "Example", prover_value |-> None, verifier_value |-> None, range_check |-> TRUE]

\* mutant of ExampleCircuit_new: the limit 2^32 itself is accepted
ExampleCircuit_new_InclusiveLimit(x, y) ==
    IF BigLess(RangeLimit, x) \/ BigLess(RangeLimit, y) THEN Err("InvalidRange")
    ELSE Ok([kind |-> "Example", prover_value |-> Some(FrFromU64(x)),
             verifier_value |-> Some(FrFromU64(y)), range_check |-> TRUE])

ExampleCircuit_new(x, y) ==
    IF BigGeq(x, RangeLimit) \/ BigGeq(y, RangeLimit) THEN Err("InvalidRange")
    ELSE Ok([kind |-> "Example", prover_value |-> Some(FrFromU64(x)),
             verifier_value |-> Some(FrFromU64(y)), range_check |-> TRUE])

TokenVerificationCircuit_new(tokens_to_send, tokens_asked) ==
    IF BigGeq(tokens_to_send, RangeLimit) \/ BigGeq(tokens_asked, RangeLimit) THEN Err("InvalidRange")
    ELSE Ok([kind |-> "Token", tokens_to_send |-> Some(FrFromU64(tokens_to_send)),
             tokens_asked |-> Some(FrFromU64(tokens_asked))])

\* Variable::Witness(k) and Variable::Instance(k) for the k-th variable
\* allocated after the ones cs holds (k = 0: the next one)
WitnessVarAfter(cs, k) == [t |-> "Witness", i |-> Len(cs.witness) + k]

InputVarAfter(cs, k) == [t |-> "Instance", i |-> Len(cs.instance) + k]

\* if d.into_bigint().get_bit(i) { Fr::one() } else { Fr::zero() }
BitValue(d, i) == IF GetBit(d, i) THEN FrOne ELSE FrZero

\* Fr::from(1u64 << i)
Power(i) == FrFromU64(Shl1(i))

\* let bit = cs.new_witness_variable(bit value); enforce bit * bit = bit
BitBlock(cs, bit_val) ==
    enforce_constraint(new_witness_variable(cs, bit_val),
                       LcVar(NextWitnessVar(cs)), LcVar(NextWitnessVar(cs)), LcVar(NextWitnessVar(cs)))

\* let bit_contribution = cs.new_witness_variable(bit_val * power);
\* enforce (power * One) * bit = bit_contribution
ContributionBlock(cs, bit, bit_val, power) ==
    enforce_constraint(new_witness_variable(cs, FrMul(bit_val, power)),
                       Term(power, VarOne), LcVar(bit), LcVar(NextWitnessVar(cs)))

\* let new_acc = cs.new_witness_variable(acc);
\* enforce (prev_acc_var + bit_contribution) * One = new_acc
AccumulatorBlock(cs, prev_acc_var, bit_contribution, acc) ==
    enforce_constraint(new_witness_variable(cs, acc),
                       LcVar(prev_acc_var) \o LcVar(bit_contribution), LcVar(VarOne),
                       LcVar(NextWitnessVar(cs)))

\* acc = acc + (power * bit value)
UpdatedAcc(acc, d, i) == FrAdd(acc, FrMul(Power(i), BitValue(d, i)))

\* The body of iteration i: bit, bit_contribution and new_acc are the three
\* witness variables it allocates, in that order; acc is the updated value.
RangeCheckIteration(cs, d, i, acc, prev_acc_var) ==
    AccumulatorBlock(
        ContributionBlock(BitBlock(cs, BitValue(d, i)), WitnessVarAfter(cs, 0), BitValue(d, i), Power(i)),
        prev_acc_var, WitnessVarAfter(cs, 1), acc)

\* The range-check loop from iteration i on; the result is the constraint
\* system and the last accumulator variable.  RangeCheckLoopFrom continues
\* after an iteration, whose new_acc is the last witness variable allocated.
RECURSIVE RangeCheckLoop(_, _, _, _, _)
RECURSIVE RangeCheckLoopFrom(_, _, _, _)
RangeCheckLoopFrom(cs, d, i, acc) ==
    IF cs.witness # <<>>
    THEN RangeCheckLoop(cs, d, i, acc, [t |-> "Witness", i |-> Len(cs.witness) - 1])
    ELSE [cs |-> cs, acc_var |-> VarOne]

RangeCheckLoop(cs, d, i, acc, prev_acc_var) ==
    IF i >= RangeBits THEN [cs |-> cs, acc_var |-> prev_acc_var]
    ELSE RangeCheckLoopFrom(RangeCheckIteration(cs, d, i, UpdatedAcc(acc, d, i), prev_acc_var),
                            d, i + 1, UpdatedAcc(acc, d, i))

\* the final constraint: d_var * One = acc_var
FinalEquality(loop, d_var) ==
    enforce_constraint(loop.cs, LcVar(d_var), LcVar(VarOne), LcVar(loop.acc_var))

\* mutant of RangeCheck: the final equality d_var = acc_var is not enforced
RangeCheck_NoFinalEquality(cs, d, d_var) ==
    RangeCheckLoop(new_witness_variable(cs, FrZero), d, 0, FrZero, NextWitnessVar(cs)).cs

\* The range check on d_var: accumulator start, the loop, the final equality.
RangeCheck(cs, d, d_var) ==
    FinalEquality(RangeCheckLoop(new_witness_variable(cs, FrZero), d, 0, FrZero, NextWitnessVar(cs)),
                  d_var)

\* let neg_y_var = cs.new_witness_variable(neg_one * y);
\* enforce (neg_one * y_var) * One = neg_y_var
NegationBlock(cs, y, y_var) ==
    enforce_constraint(new_witness_variable(cs, FrMul(FrNegOne, y)),
                       Term(FrNegOne, y_var), LcVar(VarOne), LcVar(NextWitnessVar(cs)))

\* let d_var = cs.new_witness_variable(d); enforce (x_var + neg_y_var) * One = d_var
DifferenceBlock(cs, d, x_var, neg_y_var) ==
    enforce_constraint(new_witness_variable(cs, d),
                       LcVar(x_var) \o LcVar(neg_y_var), LcVar(VarOne), LcVar(NextWitnessVar(cs)))

\* d = x + (neg_one * y)
Difference(x, y) == FrAdd(x, FrMul(FrNegOne, y))

\* The statements after the allocation of x and y: neg_y_var and d_var are
\* the next two witness variables.
DifferenceConstraints(cs, x, y, x_var, y_var) ==
    DifferenceBlock(NegationBlock(cs, y, y_var), Difference(x, y), x_var, WitnessVarAfter(cs, 0))

ExampleCircuit_generate_constraints(self, cs) ==
    IF ~IsSome(self.prover_value) \/ ~IsSome(self.verifier_value) THEN Err("AssignmentMissing")
    ELSE IF self.range_check
    THEN Ok(RangeCheck(DifferenceConstraints(
                           new_input_variable(new_input_variable(cs, self.prover_value.some),
                                              self.verifier_value.some),
                           self.prover_value.some, self.verifier_value.some,
                           InputVarAfter(cs, 0), InputVarAfter(cs, 1)),
                       Difference(self.prover_value.some, self.verifier_value.some),
                       WitnessVarAfter(cs, 1)))
    ELSE Ok(DifferenceConstraints(
                new_input_variable(new_input_variable(cs, self.prover_value.some),
                                   self.verifier_value.some),
                self.prover_value.some, self.verifier_value.some,
                InputVarAfter(cs, 0), InputVarAfter(cs, 1)))

\* tokens_to_send is allocated first, as a witness variable; tokens_asked is
\* the only input variable; neg and d follow as witness variables 1 and 2.
TokenVerificationCircuit_generate_constraints(self, cs) ==
    IF ~IsSome(self.tokens_to_send) \/ ~IsSome(self.tokens_asked) THEN Err("AssignmentMissing")
    ELSE Ok(RangeCheck(DifferenceConstraints(
                           new_input_variable(new_witness_variable(cs, self.tokens_to_send.some),
                                              self.tokens_asked.some),
                           self.tokens_to_send.some, self.tokens_asked.some,
                           WitnessVarAfter(cs, 0), InputVarAfter(cs, 0)),
                       Difference(self.tokens_to_send.some, self.tokens_asked.some),
                       WitnessVarAfter(cs, 2)))

\* a synthesis that fails when the assigned witness leaves a constraint unsatisfied
RejectUnsatisfied(r) == IF r.ok /\ ~is_satisfied(r.val) THEN Err("Unsatisfiable") ELSE r

\* mutant of generate_constraints: building the constraints rejects a false inequality
generate_constraints_RejectingUnsatisfied(self, cs) ==
    RejectUnsatisfied(IF self.kind = "Example" THEN ExampleCircuit_generate_constraints(self, cs)
                      ELSE TokenVerificationCircuit_generate_constraints(self, cs))

\* <C as ConstraintSynthesizer>::generate_constraints, by circuit type
generate_constraints(self, cs) ==
    IF self.kind = "Example" THEN ExampleCircuit_generate_constraints(self, cs)
    ELSE TokenVerificationCircuit_generate_constraints(self, cs)

(***************************************************************************)
(* byte_utils.rs: the field codec.  A field element serializes to the 32   *)
(* little-endian bytes of its canonical representative; a buffer decodes   *)
(* only if it is numerically below r.  A decoded value outside the         *)
(* two-limb range is kept as its canonical bytes, [big |-> bytes].         *)
(***************************************************************************)
FieldBytes == 32

IsBig(f) == "big" \in DOMAIN f

\* the n low little-endian bytes of a two-limb integer a >= 0
RECURSIVE LeBytes(_, _)
LeBytes(a, n) ==
    IF n = 0 THEN <<>>
    ELSE LET low == (a.hi % 256) * Limb + a.lo
         IN  <<low % 256>> \o LeBytes([hi |-> a.hi \div 256, lo |-> low \div 256], n - 1)

\* the two-limb integer of a little-endian byte string (short enough to fit)
RECURSIVE OfLeBytes(_)
OfLeBytes(b) ==
    IF b = <<>> THEN BigOfInt(0)
    ELSE BigAdd(BigOfInt(Head(b)), BigMul(BigOfInt(256), OfLeBytes(Tail(b))))

\* a - b - borrow on little-endian byte strings of equal length (a >= b)
RECURSIVE SubLe(_, _, _)
SubLe(a, b, borrow) ==
    IF a = <<>> THEN <<>>
    ELSE LET t == Head(a) - Head(b) - borrow
         IN  <<t % 256>> \o SubLe(Tail(a), Tail(b), IF t < 0 THEN 1 ELSE 0)

\* a < b on little-endian byte strings of equal length
RECURSIVE LessLe(_, _)
LessLe(a, b) ==
    IF a = <<>> THEN FALSE
    ELSE LET n == Len(a)
         IN  a[n] < b[n] \/ (a[n] = b[n] /\ LessLe(SubSeq(a, 1, n - 1), SubSeq(b, 1, n - 1)))

\* the bytes above the low five are all zero: the value is below 2^40
FitsLimbs(b) == \A i \in 6..Len(b) : b[i] = 0

\* mutant of field_to_bytes: the bytes of the magnitude, without reduction modulo r
field_to_bytes_Magnitude(field) == IF IsBig(field) THEN field.big ELSE LeBytes(BigAbs(field), FieldBytes)

field_to_bytes(field) ==
    IF IsBig(field) THEN field.big
    ELSE IF field.hi < 0 THEN SubLe(RBytes, LeBytes(BigNeg(field), FieldBytes), 0)
    ELSE LeBytes(field, FieldBytes)

\* the field element of canonical bytes b whose distance to r is neg
FieldOfCanonical(b, neg) ==
    IF FitsLimbs(b) THEN OfLeBytes(SubSeq(b, 1, 5))
    ELSE IF FitsLimbs(neg) THEN BigNeg(OfLeBytes(SubSeq(neg, 1, 5)))
    ELSE [big |-> b]

\* Fr::deserialize_uncompressed on exactly the first 32 bytes
DeserializeFr(b) ==
    IF ~LessLe(b, RBytes) THEN Err("SerializationError")
    ELSE Ok(FieldOfCanonical(b, SubLe(RBytes, b, 0)))

bytes_to_field(bytes) ==
    IF Len(bytes) < FieldBytes THEN Err("SerializationError")
    ELSE DeserializeFr(SubSeq(bytes, 1, FieldBytes))

ExampleCircuit_public_inputs(self) ==
    IF IsSome(self.prover_value) /\ IsSome(self.verifier_value)
    THEN Ok(<<field_to_bytes(self.prover_value.some), field_to_bytes(self.verifier_value.some)>>)
    ELSE Err("MissingAssignment")

\* mutant of TokenVerificationCircuit_public_inputs: tokens_to_send must be set too
TokenVerificationCircuit_public_inputs_RequiringBoth(self) ==
    IF IsSome(self.tokens_to_send) /\ IsSome(self.tokens_asked)
    THEN Ok(<<field_to_bytes(self.tokens_asked.some)>>)
    ELSE Err("MissingAssignment")

TokenVerificationCircuit_public_inputs(self) ==
    IF IsSome(self.tokens_asked) THEN Ok(<<field_to_bytes(self.tokens_asked.some)>>)
    ELSE Err("MissingAssignment")

public_inputs(self) ==
    IF self.kind = "Example" THEN ExampleCircuit_public_inputs(self)
    ELSE TokenVerificationCircuit_public_inputs(self)

\* the private (prover) value and the public value of a circuit
ProverValue(self) == IF self.kind = "Example" THEN self.prover_value ELSE self.tokens_to_send

PublicValue(self) == IF self.kind = "Example" THEN self.verifier_value ELSE self.tokens_asked

(***************************************************************************)
(* The u64 arguments the model draws: the values next to 0, next to the    *)
(* 2^32 limit on both sides, and the amounts the repository's tests use.   *)
(***************************************************************************)
MaxOffset == 2

U64Samples ==
    {BigOfInt(k) : k \in 0..MaxOffset}
        \cup {BigAdd(RangeLimit, BigOfInt(-1 - k)) : k \in 0..MaxOffset}
        \cup {BigAdd(RangeLimit, BigOfInt(k)) : k \in 0..1}
        \cup {BigOfInt(500), BigOfInt(1000)}

\* the smaller set of arguments a proving session draws
MaxProverOffset == 1

ProverSamples ==
    {BigOfInt(k) : k \in 0..MaxProverOffset}
        \cup {BigAdd(RangeLimit, BigOfInt(-1)), BigOfInt(500), BigOfInt(1000)}

CircuitKinds == {"Example", "Token"}

circuit_new(kind, x, y) ==
    IF kind = "Example" THEN ExampleCircuit_new(x, y) ELSE TokenVerificationCircuit_new(x, y)

(***************************************************************************)
(* Synthesis of a circuit on a fresh constraint system is a function of    *)
(* the circuit alone.  It is computed once for every circuit the model     *)
(* can build and looked up afterwards; the table holds exactly what        *)
(* generate_constraints and is_satisfied return.                           *)
(***************************************************************************)
\* a circuit written as a struct literal (the fields are public): each value
\* set or left unset, range_check as the constructors set it
circuit_literal(kind, prover, public) ==
    IF kind = "Example"
    THEN [kind |-> "Example", prover_value |-> prover, verifier_value |-> public, range_check |-> TRUE]
    ELSE [kind |-> "Token", tokens_to_send |-> prover, tokens_asked |-> public]

\* the values a struct literal gives a field
OptionalValues == {None, Some(FrFromU64(BigOfInt(0))), Some(FrFromU64(BigOfInt(1000)))}

KnownCircuits ==
    {ExampleCircuit_default} \cup
    {circuit_literal(kind, prover, public) : kind \in CircuitKinds, prover \in OptionalValues,
                                             public \in OptionalValues} \cup
    {r.val : r \in {q \in {circuit_new(kind, x, y) : kind \in CircuitKinds,
                                                       x \in U64Samples \cup ProverSamples,
                                                       y \in U64Samples \cup ProverSamples} : q.ok}}

SynthesisEntry(c, r) == [c |-> c, r |-> r, sat |-> r.ok /\ is_satisfied(r.val)]

SynthesisOf(c) == SynthesisEntry(c, generate_constraints(c, NewCS))

SynthesisTable == {SynthesisOf(c) : c \in KnownCircuits}

Synthesis(c) == CHOOSE e \in SynthesisTable : e.c = c

\* c.generate_constraints(cs) for a fresh cs = ConstraintSystem::new_ref()
synthesize(c) == Synthesis(c).r

\* cs.is_satisfied() for that cs
synthesized_is_satisfied(c) == Synthesis(c).sat

(***************************************************************************)
(* Specification SpecCircuit: building a circuit, synthesizing its         *)
(* constraints on a fresh constraint system, reading its public inputs.    *)
(***************************************************************************)
\* nothing has been set up, proved or verified
IdleProver ==
    /\ keyPairs = <<>>
    /\ keyFiles = None
    /\ setupResult = None
    /\ proveCall = None
    /\ proveResult = None
    /\ proveLog = <<>>
    /\ verifyResult = None

IdleVerifier ==
    /\ verifyArgs = None
    /\ generalResult = None

IdleOnChain ==
    /\ verifierArgs = None
    /\ verifier = None
    /\ pairingEquation = FALSE
    /\ pairingCalls = <<>>
    /\ onchainResult = None

\* the processes that may call setup concurrently
Callers == {1, 2}

\* no file of that name exists
Absent == [absent |-> TRUE]

IdleRace ==
    /\ setupPc = [p \in Callers |-> "idle"]
    /\ setupLocal = [p \in Callers |-> None]
    /\ setupReturn = [p \in Callers |-> None]
    /\ diskFiles = [pk |-> Absent, vk |-> Absent]

\* a wallet account without data
Wallet(lamports) == [lamports |-> lamports, data |-> <<>>]

IdleProgram ==
    /\ ledger = [k \in {"wallet"} |-> Wallet(0)]
    /\ instruction = None

IdleEndian ==
    /\ endianIn = <<>>
    /\ endianSize = 0
    /\ endianOut = None
    /\ endianBack = None

IdleCodec ==
    /\ codecField = None
    /\ codecBytes = None
    /\ codecBack = None

IdlePackage == packageCall = None

IdleEscrow ==
    /\ escrowChain = None
    /\ escrowLast = None
    /\ escrowLog = {}

IdleCommit ==
    /\ commitChain = None
    /\ commitLast = None

IdleOther == IdleRace /\ IdleProgram /\ IdleEndian /\ IdleCodec /\ IdlePackage /\ IdleEscrow /\ IdleCommit

NoCircuit ==
    /\ newCall = None
    /\ circuit = None
    /\ synth = None
    /\ pubIn = None

InitCircuit ==
    /\ NoCircuit
    /\ debug_assertions = TRUE
    /\ IdleProver
    /\ IdleVerifier
    /\ IdleOnChain
    /\ IdleOther

\* ExampleCircuit::new / TokenVerificationCircuit::new
CircuitNew(kind, x, y) ==
    /\ newCall' = [kind |-> kind, x |-> x, y |-> y]
    /\ circuit' = circuit_new(kind, x, y)
    /\ synth' = None
    /\ pubIn' = None

\* ExampleCircuit::default()
CircuitDefault ==
    /\ newCall' = None
    /\ circuit' = Ok(ExampleCircuit_default)
    /\ synth' = None
    /\ pubIn' = None

\* ExampleCircuit { .. } / TokenVerificationCircuit { .. }
CircuitLiteral(kind, prover, public) ==
    /\ newCall' = None
    /\ circuit' = Ok(circuit_literal(kind, prover, public))
    /\ synth' = None
    /\ pubIn' = None

HasCircuit == IsOk(circuit)

\* circuit.generate_constraints(ConstraintSystem::new_ref())
CircuitSynthesize ==
    /\ HasCircuit
    /\ synth' = synthesize(circuit.val)
    /\ UNCHANGED <<newCall, circuit, pubIn>>

\* circuit.public_inputs()
CircuitPublicInputs ==
    /\ HasCircuit
    /\ pubIn' = public_inputs(circuit.val)
    /\ UNCHANGED <<newCall, circuit, synth>>

NextCircuit ==
    \/ \E kind \in CircuitKinds, x \in U64Samples, y \in U64Samples :
          CircuitNew(kind, x, y) /\ UNCHANGED varsNotCircuit
    \/ CircuitDefault /\ UNCHANGED varsNotCircuit
    \/ \E kind \in CircuitKinds, prover \in OptionalValues, public \in OptionalValues :
          CircuitLiteral(kind, prover, public) /\ UNCHANGED varsNotCircuit
    \/ CircuitSynthesize /\ UNCHANGED varsNotCircuit
    \/ CircuitPublicInputs /\ UNCHANGED varsNotCircuit

SpecCircuit == InitCircuit /\ [][NextCircuit]_vars

(***************************************************************************)
(* Claims about the circuits.                                              *)
(***************************************************************************)
Synthesized == HasCircuit /\ IsOk(synth)

LastConstraint(cs) == Len(cs.constraints)

\* C1: for a circuit built by new(x, y), the witness generate_constraints
\* assigns satisfies every constraint if and only if x >= y; when x < y every
\* constraint but the last (the two difference constraints, each bit's boolean
\* constraint, each contribution and each accumulator step) still holds and
\* the final constraint D = accumulator is violated.  Both circuit types.
C1_WitnessSatisfiedIffGeq ==
    Synthesized =>
        LET cs == synth.val
            x == ProverValue(circuit.val).some
            y == PublicValue(circuit.val).some
        IN  /\ LastConstraint(cs) = 2 + 3 * RangeBits + 1
            /\ is_satisfied(cs) <=> BigGeq(x, y)
            /\ \A k \in 1..(LastConstraint(cs) - 1) : ConstraintHolds(cs, k)
            /\ BigLess(x, y) => ~ConstraintHolds(cs, LastConstraint(cs))

\* C1 witness: a synthesized Token circuit with x < y whose final constraint fails
C1_Witness ==
    /\ Synthesized
    /\ circuit.val.kind = "Token"
    /\ BigLess(ProverValue(circuit.val).some, PublicValue(circuit.val).some)
    /\ ~ConstraintHolds(synth.val, LastConstraint(synth.val))
    /\ ~is_satisfied(synth.val)

\* C5 as claimed: for any two circuits of the same type with the same public
\* value and different prover values, public_inputs() returns the same list
\* and generate_constraints assigns the same values to the instance variables.
C5_ProverValueNotInPublicInputs ==
    (HasCircuit /\ IsSome(ProverValue(circuit.val)) /\ IsSome(PublicValue(circuit.val))) =>
        \A x2 \in U64Samples :
            LET other == circuit_new(circuit.val.kind, x2, PublicValue(circuit.val).some)
            IN  other.ok =>
                    /\ IsOk(pubIn) => public_inputs(other.val) = pubIn
                    /\ IsOk(synth) =>
                           synthesize(other.val).val.instance = synth.val.instance

\* C13: for every circuit built by new(x, y) with in-range values,
\* generate_constraints on a fresh constraint system returns Ok, whether or
\* not x >= y: building the constraints never rejects a false inequality.
C13_SynthesisNeverRejects ==
    (newCall # None /\ HasCircuit /\ synth # None) => IsOk(synth)

\* C13 witness: ExampleCircuit::new(x, y) with x < y, synthesized with Ok
C13_Witness ==
    /\ newCall # None /\ HasCircuit
    /\ newCall.kind = "Example"
    /\ BigLess(newCall.x, newCall.y)
    /\ IsOk(synth)
    /\ ~is_satisfied(synth.val)

\* public_inputs() was called on the circuit
PublicInputsCalled == HasCircuit /\ pubIn # None

BothAssigned == IsSome(ProverValue(circuit.val)) /\ IsSome(PublicValue(circuit.val))

\* C18 as claimed: public_inputs() fails with CircuitError::MissingAssignment
\* if either of the circuit's two values is unset and returns Ok only when
\* both are assigned, for ExampleCircuit and for TokenVerificationCircuit.
C18_PublicInputsNeedBothValues ==
    PublicInputsCalled =>
        /\ ~BothAssigned => pubIn = Err("MissingAssignment")
        /\ IsOk(pubIn) => BothAssigned

\* C18 amended: ExampleCircuit::public_inputs fails with MissingAssignment if
\* either value is unset and returns Ok only when both are assigned;
\* TokenVerificationCircuit::public_inputs fails with MissingAssignment exactly
\* when tokens_asked (the public value) is unset, and returns Ok when it is
\* assigned, whether or not tokens_to_send is.
C18_PublicInputsNeedTheValuesReturned ==
    PublicInputsCalled =>
        /\ circuit.val.kind = "Example" =>
               /\ ~BothAssigned => pubIn = Err("MissingAssignment")
               /\ BothAssigned => IsOk(pubIn) /\ Len(pubIn.val) = 2
        /\ circuit.val.kind = "Token" =>
               /\ ~IsSome(PublicValue(circuit.val)) => pubIn = Err("MissingAssignment")
               /\ IsSome(PublicValue(circuit.val)) => IsOk(pubIn) /\ Len(pubIn.val) = 1

\* C18 witness: a TokenVerificationCircuit whose tokens_to_send is unset and
\* whose tokens_asked is set returned its public inputs
C18_Witness ==
    /\ PublicInputsCalled
    /\ circuit.val.kind = "Token"
    /\ ~IsSome(ProverValue(circuit.val))
    /\ IsSome(PublicValue(circuit.val))
    /\ IsOk(pubIn)

\* 2^32 written out: 131072 * 2^15
TwoTo32 == Big(131072, 0)

\* C12: new(x, y) fails with CircuitError::InvalidRange if and only if
\* x >= 2^32 or y >= 2^32, for both circuit types; it succeeds for
\* x = y = 2^32 - 1 and fails for (2^32, 0) and (0, 2^32).
C12_NewRangeCheck ==
    newCall # None =>
        /\ circuit = Err("InvalidRange") <=>
               (BigGeq(newCall.x, TwoTo32) \/ BigGeq(newCall.y, TwoTo32))
        /\ IsOk(circuit) \/ circuit = Err("InvalidRange")
        /\ (newCall.x = Big(131071, 32767) /\ newCall.y = Big(131071, 32767)) => IsOk(circuit)
        /\ (newCall.x = TwoTo32 /\ newCall.y = BigOfInt(0)) => circuit = Err("InvalidRange")
        /\ (newCall.x = BigOfInt(0) /\ newCall.y = TwoTo32) => circuit = Err("InvalidRange")

\* C12 witness: ExampleCircuit::new(2^32 - 1, 2^32) was called and failed
\* with InvalidRange on its second argument alone
C12_Witness ==
    /\ newCall # None
    /\ newCall.kind = "Example"
    /\ newCall.x = Big(131071, 32767)
    /\ newCall.y = TwoTo32
    /\ circuit = Err("InvalidRange")

(***************************************************************************)
(* Groth16 over BN254 (ark_groth16), modelled symbolically.                *)
(*                                                                         *)
(* A key pair carries the identity of the setup call that drew it (fresh   *)
(* randomness: keys of two calls are unrelated) and the shape of the       *)
(* constraint system it was generated for.  A proof carries the proving    *)
(* key it was made with, the instance assignment of the circuit it was     *)
(* made for and whether the witness satisfied the constraints.  The        *)
(* pairing equation holds exactly for a proof of a satisfied witness,      *)
(* checked under the verifying key of the same setup against the input     *)
(* point prepared from the same instance assignment (completeness and      *)
(* knowledge soundness, idealized).                                        *)
(***************************************************************************)
ValidPoint == [valid |-> TRUE]

InvalidPoint == [valid |-> FALSE]

Shape(cs) == [instance |-> Len(cs.instance), witness |-> Len(cs.witness), constraints |-> Len(cs.constraints)]

\* a proving key whose query vectors are empty
EmptyProvingKey == [id |-> 0, shape |-> Shape([instance |-> <<>>, witness |-> <<>>, constraints |-> <<>>]), a_query |-> 0]

\* the key pair of setup call id for a synthesized constraint system
GenerateKeys(cs, id) ==
    [pk |-> [id |-> id, shape |-> Shape(cs), a_query |-> Len(cs.instance) + Len(cs.witness)],
     vk |-> [id |-> id, shape |-> Shape(cs), gamma_abc_g1 |-> Len(cs.instance)]]

SetupFrom(r, id) == IF ~r.ok THEN Err(r.err) ELSE Ok(GenerateKeys(r.val, id))

\* Groth16::circuit_specific_setup(circuit, rng); id names the randomness drawn
circuit_specific_setup(c, id) == SetupFrom(synthesize(c), id)

\* create_proof_with_reduction after synthesis r: asserts under debug
\* assertions that the witness satisfies the constraints (debug_assert!),
\* and computes the proof from whatever witness was assigned.
ProveFrom(pk, r, satisfied, debug) ==
    IF ~r.ok THEN Err(r.err)
    ELSE IF debug /\ ~satisfied THEN Panic("assertion failed: cs.is_satisfied()")
    ELSE Ok([a |-> ValidPoint, b |-> ValidPoint, c |-> ValidPoint, pk |-> pk.id,
             instance |-> Tail(r.val.instance), sat |-> satisfied])

\* Groth16::prove(pk, circuit, rng)
Groth16_prove(pk, c, debug) == ProveFrom(pk, synthesize(c), synthesized_is_satisfied(c), debug)

prepare_verifying_key(vk) == [vk |-> vk]

\* Groth16::prepare_inputs(pvk, inputs): gamma_abc_g1[0] + sum inputs[i] * gamma_abc_g1[i+1]
prepare_inputs(pvk, inputs) ==
    IF Len(inputs) + 1 # pvk.vk.gamma_abc_g1 THEN Err("MalformedVerifyingKey")
    ELSE Ok([valid |-> TRUE, vk |-> pvk.vk.id, inputs |-> inputs])

\* mutant of PairingHolds: the prepared input is not part of the equation
PairingHolds_IgnoringInput(pvk, proof, prepared) == proof.sat /\ proof.pk = pvk.vk.id

PairingHolds(pvk, proof, prepared) ==
    /\ proof.sat
    /\ proof.pk = pvk.vk.id
    /\ prepare_inputs(pvk, proof.instance) = Ok(prepared)

\* Groth16::verify_proof_with_prepared_inputs(pvk, proof, prepared_inputs)
verify_proof_with_prepared_inputs(pvk, proof, prepared) == Ok(PairingHolds(pvk, proof, prepared))

\* serialize_uncompressed: an injective encoding of the value
Serialize(v) == [bytes_of |-> v]

(***************************************************************************)
(* prove.rs                                                                *)
(***************************************************************************)
\* .map_err(|_| ProofError::InvalidPublicInput)
MapErr(r, e) == IF r.ok THEN r ELSE Err(e)

validate_public_input(input) == MapErr(bytes_to_field(input), "InvalidPublicInput")

validate_proving_key(proving_key, c) ==
    IF ~synthesize(c).ok THEN Err("CircuitValidationFailed")
    ELSE IF proving_key.a_query = 0 THEN Err("InvalidProvingKey")
    ELSE Ok(TRUE)

\* inputs.iter().map(f).collect::<Result<Vec<_>, _>>(): the values, or the first error
RECURSIVE CollectResults(_)
CollectResults(rs) ==
    IF rs = <<>> THEN Ok(<<>>)
    ELSE IF ~Head(rs).ok THEN Head(rs)
    ELSE LET rest == CollectResults(Tail(rs))
         IN  IF rest.ok THEN Ok(<<Head(rs).val>> \o rest.val) ELSE rest

\* usize::saturating_sub
saturating_sub(a, b) == IF a >= b THEN a - b ELSE 0

\* mutant of expected_public_inputs: the constant-one variable is counted
expected_public_inputs_CountingOne(cs) == num_instance_variables(cs)

\* cs.num_instance_variables().saturating_sub(1)
expected_public_inputs(cs) == saturating_sub(num_instance_variables(cs), 1)

\* mutant of ProofPackages: the lite package carries the bytes of the verifying
\* key as supplied (verifying_key_bytes) instead of the prepared key's
ProofPackages_LiteUnpreparedKey(proof, inputs, g1_projective, prepared_verifying_key) ==
    [lite |-> [proof |-> Serialize(proof), public_inputs |-> inputs,
               verifying_key |-> Serialize(prepared_verifying_key.vk)],
     prepared |-> [proof |-> Serialize(proof), public_inputs |-> Serialize(g1_projective),
                   verifying_key |-> Serialize(prepared_verifying_key)],
     native |-> [proof |-> proof, public_inputs |-> g1_projective,
                 prepared_verifying_key |-> prepared_verifying_key]]

\* The three encodings of one proving call (the tail of generate_proof_package).
ProofPackages(proof, inputs, g1_projective, prepared_verifying_key) ==
    [lite |-> [proof |-> Serialize(proof), public_inputs |-> inputs,
               verifying_key |-> Serialize(prepared_verifying_key)],
     prepared |-> [proof |-> Serialize(proof), public_inputs |-> Serialize(g1_projective),
                   verifying_key |-> Serialize(prepared_verifying_key)],
     native |-> [proof |-> proof, public_inputs |-> g1_projective,
                 prepared_verifying_key |-> prepared_verifying_key]]

\* the stages of generate_proof_package, in the order it goes through them
StagesTo(n) ==
    SubSeq(<<"validate_proving_key", "validate_public_input", "count_check", "prove", "prepare_inputs">>,
           1, n)

\* let g1_projective = Groth16::prepare_inputs(..).expect(..); then the packages
PackageAfterPrepare(proof, g1_projective, inputs, prepared_verifying_key) ==
    IF ~g1_projective.ok
    THEN [result |-> Panic("Error preparing inputs"), log |-> StagesTo(5)]
    ELSE [result |-> Ok(ProofPackages(proof, inputs, g1_projective.val, prepared_verifying_key)),
          log |-> StagesTo(5)]

\* let proof = Groth16::prove(..).unwrap(); then prepare_inputs
PackageAfterProve(proved, public_inputs_fr, inputs, verifying_key) ==
    IF ~proved.ok
    THEN [result |-> IF IsPanic(proved) THEN proved ELSE Panic("unwrap on Err"), log |-> StagesTo(4)]
    ELSE PackageAfterPrepare(proved.val,
                             prepare_inputs(prepare_verifying_key(verifying_key), public_inputs_fr),
                             inputs, prepare_verifying_key(verifying_key))

\* mutant of PackageAfterSynthesis: the number of public inputs is not compared
PackageAfterSynthesis_NoCountCheck(synthesis, public_inputs_fr, proving_key, verifying_key, c, inputs, debug) ==
    IF ~synthesis.ok
    THEN [result |-> Err("CircuitValidationFailed"), log |-> StagesTo(3)]
    ELSE PackageAfterProve(Groth16_prove(proving_key, c, debug), public_inputs_fr, inputs, verifying_key)

\* the count check on the synthesized constraint system, then prove
PackageAfterSynthesis(synthesis, public_inputs_fr, proving_key, verifying_key, c, inputs, debug) ==
    IF ~synthesis.ok
    THEN [result |-> Err("CircuitValidationFailed"), log |-> StagesTo(3)]
    ELSE IF Len(public_inputs_fr) # expected_public_inputs(synthesis.val)
    THEN [result |-> Err("InvalidPublicInput"), log |-> StagesTo(3)]
    ELSE PackageAfterProve(Groth16_prove(proving_key, c, debug), public_inputs_fr, inputs, verifying_key)

\* the collected public inputs, then synthesis for the count check
PackageAfterInputs(public_inputs_fr, proving_key, verifying_key, c, inputs, debug) ==
    IF ~public_inputs_fr.ok
    THEN [result |-> public_inputs_fr, log |-> StagesTo(2)]
    ELSE PackageAfterSynthesis(synthesize(c), public_inputs_fr.val, proving_key, verifying_key, c,
                               inputs, debug)

\* mutant of PackageAfterKey: the outcome of validate_proving_key is ignored
PackageAfterKey_Unvalidated(validated, proving_key, verifying_key, c, inputs, debug) ==
    PackageAfterInputs(CollectResults([i \in 1..Len(inputs) |-> validate_public_input(inputs[i])]),
                       proving_key, verifying_key, c, inputs, debug)

\* validate_proving_key(..)?, then the public inputs
PackageAfterKey(validated, proving_key, verifying_key, c, inputs, debug) ==
    IF ~validated.ok
    THEN [result |-> validated, log |-> StagesTo(1)]
    ELSE PackageAfterInputs(CollectResults([i \in 1..Len(inputs) |-> validate_public_input(inputs[i])]),
                            proving_key, verifying_key, c, inputs, debug)

\* generate_proof_package: the result and the stages gone through.  debug is
\* the build's debug-assertions setting, which Groth16::prove depends on.
generate_proof_package(proving_key, verifying_key, c, inputs, debug) ==
    PackageAfterKey(validate_proving_key(proving_key, c), proving_key, verifying_key, c, inputs, debug)

(***************************************************************************)
(* verify.rs                                                               *)
(***************************************************************************)
is_valid_point(point) == point.valid

is_valid_proof(proof) == proof.a.valid /\ proof.b.valid /\ proof.c.valid

\* mutant of verify: the proof points are checked before the prepared input
verify_ProofFirst(proof, inputs, vk) ==
    IF ~is_valid_proof(proof) THEN Err("InvalidProof")
    ELSE IF ~is_valid_point(inputs) THEN Err("InvalidPublicInput")
    ELSE MapErr(verify_proof_with_prepared_inputs(prepare_verifying_key(vk), proof, inputs),
                "VerificationFailed")

verify(proof, inputs, vk) ==
    IF ~is_valid_point(inputs) THEN Err("InvalidPublicInput")
    ELSE IF ~is_valid_proof(proof) THEN Err("InvalidProof")
    ELSE MapErr(verify_proof_with_prepared_inputs(prepare_verifying_key(vk), proof, inputs),
                "VerificationFailed")

\* mutant of verify_proof_package: the prepared input is checked before the proof
verify_proof_package_InputFirst(proof_package) ==
    IF ~is_valid_point(proof_package.public_inputs) THEN Err("InvalidPublicInput")
    ELSE IF ~is_valid_proof(proof_package.proof) THEN Err("InvalidProof")
    ELSE MapErr(verify_proof_with_prepared_inputs(proof_package.prepared_verifying_key,
                                                  proof_package.proof, proof_package.public_inputs),
                "VerificationFailed")

verify_proof_package(proof_package) ==
    IF ~is_valid_proof(proof_package.proof) THEN Err("InvalidProof")
    ELSE IF ~is_valid_point(proof_package.public_inputs) THEN Err("InvalidPublicInput")
    ELSE MapErr(verify_proof_with_prepared_inputs(proof_package.prepared_verifying_key,
                                                  proof_package.proof, proof_package.public_inputs),
                "VerificationFailed")

(***************************************************************************)
(* Specification SpecProver: one client session.  Circuits are built,      *)
(* setup is run (each call draws fresh keys), then generate_proof_package  *)
(* is called once with a proving key and a verifying key of any setup so   *)
(* far (or an empty proving key) and a list of public inputs, and the      *)
(* native package it returns is verified.  The build profile is fixed for  *)
(* the session.  A proving key is only used with a circuit of the shape    *)
(* it was generated for.                                                   *)
(***************************************************************************)
MaxSetups == 2

Zero32 == [i \in 1..FieldBytes |-> 0]

\* 0xff..ff: not below r, so not a canonical field element
NonCanonical32 == [i \in 1..FieldBytes |-> 255]

\* the public-input lists a caller may pass along with circuit c
InputChoices(c) ==
    (IF public_inputs(c).ok THEN {public_inputs(c).val} ELSE {})
        \cup {<<>>, <<Zero32>>, <<Zero32, Zero32>>, <<NonCanonical32>>}

CallerInputs == IF IsOk(circuit) THEN InputChoices(circuit.val) ELSE {}

ProvingKeys == {keyPairs[i].pk : i \in 1..Len(keyPairs)} \cup {EmptyProvingKey}

VerifyingKeys == {keyPairs[i].vk : i \in 1..Len(keyPairs)}

ShapeAllows(pk, r) == r.ok => (pk = EmptyProvingKey \/ pk.shape = Shape(r.val))

ShapeMatches(pk, c) == ShapeAllows(pk, synthesize(c))

InitProver ==
    /\ NoCircuit
    /\ debug_assertions \in BOOLEAN
    /\ IdleProver
    /\ IdleVerifier
    /\ IdleOnChain
    /\ IdleOther

\* what setup does with the outcome r of circuit_specific_setup
SetupOutcome(r, save_keys) ==
    IF ~r.ok
    THEN /\ setupResult' = Panic("unwrap on Err")
         /\ UNCHANGED <<keyPairs, keyFiles>>
    ELSE /\ setupResult' = Ok(r.val)
         /\ keyPairs' = Append(keyPairs, r.val)
         /\ keyFiles' = IF save_keys
                        THEN [pk |-> Serialize(r.val.pk), vk |-> Serialize(r.val.vk)]
                        ELSE keyFiles

\* setup(save_keys, circuit)
Setup(save_keys) ==
    /\ HasCircuit
    /\ proveCall = None
    /\ Len(keyPairs) < MaxSetups
    /\ SetupOutcome(circuit_specific_setup(circuit.val, Len(keyPairs) + 1), save_keys)
    /\ UNCHANGED <<varsCircuit, debug_assertions, proveCall, proveResult, proveLog, verifyResult>>

ProveOutcome(r) ==
    /\ proveResult' = r.result
    /\ proveLog' = r.log

\* generate_proof_package(&pk, &vk, circuit, &inputs)
GenerateProofPackage(pk, vk, inputs) ==
    /\ HasCircuit
    /\ proveCall = None
    /\ ShapeMatches(pk, circuit.val)
    /\ ProveOutcome(generate_proof_package(pk, vk, circuit.val, inputs, debug_assertions))
    /\ proveCall' = [pk |-> pk, vk |-> vk, inputs |-> inputs]
    /\ UNCHANGED <<varsCircuit, debug_assertions, keyPairs, keyFiles, setupResult, verifyResult>>

\* verify_proof_package(&proof_package) on the native package returned
VerifyProofPackage ==
    /\ IsOk(proveResult)
    /\ verifyResult = None
    /\ verifyResult' = verify_proof_package(proveResult.val.native)
    /\ UNCHANGED <<varsCircuit, debug_assertions, keyPairs, keyFiles, setupResult, proveCall,
                   proveResult, proveLog>>

NextProver ==
    \/ \E kind \in CircuitKinds, x \in ProverSamples, y \in ProverSamples :
          proveCall = None /\ CircuitNew(kind, x, y) /\ UNCHANGED varsNotCircuit
    \/ proveCall = None /\ CircuitDefault /\ UNCHANGED varsNotCircuit
    \/ \E save_keys \in BOOLEAN : Setup(save_keys) /\ UNCHANGED varsNotProver
    \/ \E pk \in ProvingKeys, vk \in VerifyingKeys, inputs \in CallerInputs :
          GenerateProofPackage(pk, vk, inputs) /\ UNCHANGED varsNotProver
    \/ VerifyProofPackage /\ UNCHANGED varsNotProver

SpecProver == InitProver /\ [][NextProver]_vars

(***************************************************************************)
(* Claims about proving.                                                   *)
(***************************************************************************)
\* generate_proof_package has been called on a circuit built by new(x, y)
ProveCalled == HasCircuit /\ proveCall # None /\ IsSome(ProverValue(circuit.val))

\* the call was given the key pair of one setup call and circuit.public_inputs()
HonestCall ==
    /\ proveCall.pk # EmptyProvingKey
    /\ proveCall.pk.id = proveCall.vk.id
    /\ public_inputs(circuit.val) = Ok(proveCall.inputs)

\* C2: for an in-range pair with prover value >= public value (equality
\* included), setup, then generate_proof_package with the keys of that setup
\* and the circuit's own public inputs returns Ok, and verify_proof_package on
\* the native package returns Ok(true).
C2_ValidPairProvesAndVerifies ==
    (ProveCalled /\ HonestCall
        /\ BigGeq(ProverValue(circuit.val).some, PublicValue(circuit.val).some)) =>
            /\ IsOk(proveResult)
            /\ verifyResult # None => verifyResult = Ok(TRUE)

\* C2 witness: prover value = public value, proved and verified true
C2_Witness ==
    /\ ProveCalled /\ HonestCall
    /\ ProverValue(circuit.val).some = PublicValue(circuit.val).some
    /\ IsOk(proveResult)
    /\ verifyResult = Ok(TRUE)

\* C3 as claimed: for an in-range pair with prover value < public value,
\* generate_proof_package (keys of one setup, the circuit's own public inputs)
\* never returns an Ok package: the call panics or errs in the proving step.
C3_InvalidPairNeverPackaged ==
    (ProveCalled /\ HonestCall
        /\ BigLess(ProverValue(circuit.val).some, PublicValue(circuit.val).some)) =>
            /\ ~IsOk(proveResult)
            /\ proveLog = StagesTo(4)

\* the circuit synthesizes and the number of inputs supplied differs from its
\* number of instance variables minus one
CountMismatch ==
    /\ HasCircuit /\ proveCall # None
    /\ synthesize(circuit.val).ok
    /\ Len(proveCall.inputs) # num_instance_variables(synthesize(circuit.val).val) - 1

\* C10 as claimed: generate_proof_package returns Err(InvalidPublicInput)
\* whenever the number of supplied public inputs differs from the circuit's
\* instance-variable count minus one.
C10_CountMismatchIsInvalidPublicInput ==
    CountMismatch => IsErr(proveResult, "InvalidPublicInput")

\* C10 amended: whenever validate_proving_key accepts the proving key and the
\* number of supplied public inputs differs from the circuit's
\* instance-variable count minus one, the result is Err(InvalidPublicInput).
C10_CountMismatchAfterKeyValidation ==
    (CountMismatch /\ validate_proving_key(proveCall.pk, circuit.val).ok) =>
        IsErr(proveResult, "InvalidPublicInput")

\* C10 witness: one canonical input supplied for ExampleCircuit, which declares
\* two, with a proving key from setup: the count check rejects it
C10_Witness ==
    /\ CountMismatch
    /\ circuit.val.kind = "Example"
    /\ proveCall.pk # EmptyProvingKey
    /\ proveCall.inputs = <<Zero32>>
    /\ IsErr(proveResult, "InvalidPublicInput")
    /\ proveLog = StagesTo(3)

\* the three validations of the call made, each computed on its own
KeyValidation == validate_proving_key(proveCall.pk, circuit.val)

InputsDecoding ==
    CollectResults([i \in 1..Len(proveCall.inputs) |-> validate_public_input(proveCall.inputs[i])])

CountMatches ==
    Len(proveCall.inputs) = num_instance_variables(synthesize(circuit.val).val) - 1

\* Groth16::prove was invoked by the call
ProverInvoked == \E i \in 1..Len(proveLog) : proveLog[i] = "prove"

\* C11: in generate_proof_package the prover runs only after
\* validate_proving_key, the decoding of every public input and the count
\* check have all succeeded; when one of them fails, its ProofError is
\* returned (the key validation's own error, InvalidPublicInput for a
\* decoding or count failure) and the prover is never invoked.
C11_ProverOnlyAfterValidation ==
    (HasCircuit /\ proveCall # None) =>
        /\ ProverInvoked <=> (KeyValidation.ok /\ InputsDecoding.ok /\ CountMatches)
        /\ ~KeyValidation.ok =>
               /\ proveResult = KeyValidation
               /\ proveResult.err \in {"CircuitValidationFailed", "InvalidProvingKey"}
        /\ (KeyValidation.ok /\ ~(InputsDecoding.ok /\ CountMatches)) =>
               IsErr(proveResult, "InvalidPublicInput")

\* C11 witness: a proving key from setup, a non-canonical input: the decoding
\* fails, InvalidPublicInput is returned and the prover was not invoked
C11_Witness ==
    /\ HasCircuit /\ proveCall # None
    /\ KeyValidation.ok
    /\ proveCall.inputs = <<NonCanonical32>>
    /\ ~InputsDecoding.ok
    /\ IsErr(proveResult, "InvalidPublicInput")
    /\ ~ProverInvoked

\* C15 as claimed: when the witness is infeasible (prover value < public
\* value), generate_proof_package, called with the keys of one setup and the
\* circuit's own public inputs, returns an Err(ProofError); it does not panic.
C15_InfeasibleWitnessIsErr ==
    (ProveCalled /\ HonestCall
        /\ BigLess(ProverValue(circuit.val).some, PublicValue(circuit.val).some)) =>
            /\ ~IsPanic(proveResult)
            /\ \E e \in {"InvalidPublicInput", "InvalidProvingKey", "CircuitValidationFailed",
                          "ProofGenerationFailed"} : IsErr(proveResult, e)

\* C14: the three encodings returned by one generate_proof_package call are
\* consistent: Lite.proof and Prepared.proof are the same bytes, the
\* uncompressed serialization of Native.proof; Prepared.public_inputs is the
\* serialization of Native.public_inputs; Lite.public_inputs is the supplied
\* input list; Lite and Prepared carry the same verifying-key bytes, those of
\* the key prepared from the supplied verifying key, which Native holds.
C14_EncodingsConsistent ==
    (proveCall # None /\ IsOk(proveResult)) =>
        /\ proveResult.val.lite.proof = proveResult.val.prepared.proof
        /\ proveResult.val.lite.proof = Serialize(proveResult.val.native.proof)
        /\ proveResult.val.prepared.public_inputs = Serialize(proveResult.val.native.public_inputs)
        /\ proveResult.val.lite.public_inputs = proveCall.inputs
        /\ proveResult.val.lite.verifying_key = proveResult.val.prepared.verifying_key
        /\ proveResult.val.prepared.verifying_key = Serialize(prepare_verifying_key(proveCall.vk))
        /\ proveResult.val.native.prepared_verifying_key = prepare_verifying_key(proveCall.vk)

\* C14 witness: a Token circuit proved with the keys of the second setup call
\* returned its three packages
C14_Witness ==
    /\ proveCall # None /\ IsOk(proveResult)
    /\ circuit.val.kind = "Token"
    /\ proveCall.vk.id = 2
    /\ proveResult.val.native.prepared_verifying_key.vk.id = 2
    /\ proveResult.val.lite.public_inputs = public_inputs(circuit.val).val

\* the call was given the keys of one setup, the witness satisfies the
\* constraints, and the inputs supplied decode to the circuit's own instance
\* values
PackageConsistent ==
    /\ proveCall.pk.id = proveCall.vk.id
    /\ synthesized_is_satisfied(circuit.val)
    /\ InputsDecoding = Ok(Tail(synthesize(circuit.val).val.instance))

C23_KeyWitness ==
    /\ HasCircuit /\ IsOk(proveResult)
    /\ proveCall.pk.id # proveCall.vk.id
    /\ synthesized_is_satisfied(circuit.val)
    /\ public_inputs(circuit.val) = Ok(proveCall.inputs)
    /\ verifyResult = Ok(FALSE)

\* a consistent call verified true
C23_TrueWitness ==
    /\ HasCircuit /\ IsOk(proveResult)
    /\ verifyResult = Ok(TRUE)

(***************************************************************************)
(* Specification SpecSetupRace: two processes in one working directory     *)
(* call setup(true, circuit) on the same circuit at the same time.  A call *)
(* draws its keys, then File::create("pk.bin") (which truncates the file), *)
(* writes the proving key through its own handle, does the same for        *)
(* vk.bin, and returns.  Each file operation is one step; the steps of the *)
(* two calls interleave freely.  Both calls serialize keys of the same     *)
(* circuit, so the two byte strings written to a file have the same length *)
(* and a write at offset 0 replaces whatever the file holds; write is      *)
(* taken to write the whole buffer.                                        *)
(***************************************************************************)
\* the circuits the two calls may be given
RaceCircuits ==
    {Ok(ExampleCircuit_default)} \cup
    {circuit_new(kind, x, y) : kind \in CircuitKinds, x \in {BigOfInt(0), BigOfInt(1)},
                               y \in {BigOfInt(0), BigOfInt(1)}}

InitSetupRace ==
    /\ newCall = None
    /\ circuit \in RaceCircuits
    /\ synth = None
    /\ pubIn = None
    /\ debug_assertions = TRUE
    /\ IdleProver
    /\ IdleVerifier
    /\ IdleOnChain
    /\ IdleOther

\* what a call does with the outcome r of circuit_specific_setup(..).unwrap()
DrawOutcome(p, r) ==
    IF ~r.ok
    THEN /\ setupPc' = [setupPc EXCEPT ![p] = "panicked"]
         /\ setupReturn' = [setupReturn EXCEPT ![p] = Panic("unwrap on Err")]
         /\ UNCHANGED setupLocal
    ELSE /\ setupPc' = [setupPc EXCEPT ![p] = "drawn"]
         /\ setupLocal' = [setupLocal EXCEPT ![p] = r.val]
         /\ UNCHANGED setupReturn

\* let (proving_key, verifying_key) = Groth16::circuit_specific_setup(circuit, rng).unwrap();
SetupDraw(p) ==
    /\ setupPc[p] = "idle"
    /\ DrawOutcome(p, circuit_specific_setup(circuit.val, p))
    /\ UNCHANGED diskFiles

\* File::create(name): the file exists and is empty
FileCreate(p, from, to, name) ==
    /\ setupPc[p] = from
    /\ setupPc' = [setupPc EXCEPT ![p] = to]
    /\ diskFiles' = [diskFiles EXCEPT ![name] = <<>>]
    /\ UNCHANGED <<setupLocal, setupReturn>>

\* key.serialize_uncompressed(&mut bytes); file.write(&bytes)
FileWrite(p, from, to, name) ==
    /\ setupPc[p] = from
    /\ setupPc' = [setupPc EXCEPT ![p] = to]
    /\ diskFiles' = [diskFiles EXCEPT ![name] = Serialize(setupLocal[p][name])]
    /\ UNCHANGED <<setupLocal, setupReturn>>

CreatePkFile(p) == FileCreate(p, "drawn", "pk_created", "pk")

WritePkFile(p) == FileWrite(p, "pk_created", "pk_written", "pk")

CreateVkFile(p) == FileCreate(p, "pk_written", "vk_created", "vk")

WriteVkFile(p) == FileWrite(p, "vk_created", "vk_written", "vk")

\* (proving_key, verifying_key)
SetupReturn(p) ==
    /\ setupPc[p] = "vk_written"
    /\ setupPc' = [setupPc EXCEPT ![p] = "returned"]
    /\ setupReturn' = [setupReturn EXCEPT ![p] = Ok(setupLocal[p])]
    /\ UNCHANGED <<setupLocal, diskFiles>>

RaceFrame == UNCHANGED <<varsCircuit, varsProver, varsVerifier, varsOnChain, varsProgram, varsEndian, varsCodec, varsPackage, varsEscrow, varsCommit>>

NextSetupRace ==
    \/ \E p \in Callers : SetupDraw(p) /\ RaceFrame
    \/ \E p \in Callers : CreatePkFile(p) /\ RaceFrame
    \/ \E p \in Callers : WritePkFile(p) /\ RaceFrame
    \/ \E p \in Callers : CreateVkFile(p) /\ RaceFrame
    \/ \E p \in Callers : WriteVkFile(p) /\ RaceFrame
    \/ \E p \in Callers : SetupReturn(p) /\ RaceFrame

SpecSetupRace == InitSetupRace /\ [][NextSetupRace]_vars

(***************************************************************************)
(* Claims about concurrent setup calls.                                    *)
(***************************************************************************)
AllReturned == \A p \in Callers : setupPc[p] = "returned"

\* pk.bin and vk.bin hold the two keys that call p returned
FilesHoldKeysOf(p) ==
    /\ diskFiles.pk = Serialize(setupReturn[p].val.pk)
    /\ diskFiles.vk = Serialize(setupReturn[p].val.vk)

\* C16 as claimed: under any interleaving of two concurrent setup(true, ..)
\* calls, each call returns its own key pair, and once both have returned
\* pk.bin and vk.bin hold the proving key and the verifying key of one and
\* the same call.
C16_PersistedKeysFromOneCall ==
    AllReturned =>
        /\ \A p \in Callers : setupReturn[p].val.pk.id = p /\ setupReturn[p].val.vk.id = p
        /\ \E p \in Callers : FilesHoldKeysOf(p)

(***************************************************************************)
(* Specification SpecVerify: calls of the general verifier verify(proof,   *)
(* prepared input, vk) on arbitrary arguments.  Each of the four points    *)
(* passes or fails the on-curve-and-subgroup check; the proof claims a     *)
(* proving key, an instance and a witness that satisfied the constraints   *)
(* or not; the prepared input and the verifying key may belong to another  *)
(* setup or another instance than the proof.                               *)
(***************************************************************************)
Points == {ValidPoint, InvalidPoint}

\* the instance assignments a proof or a prepared input is about
InstanceChoices == {<<FrFromU64(BigOfInt(500))>>, <<FrFromU64(BigOfInt(1000))>>}

SetupIds == 1..MaxSetups

ProofChoices ==
    {[a |-> pa, b |-> pb, c |-> pc, pk |-> id, instance |-> inst, sat |-> sat] :
        pa \in Points, pb \in Points, pc \in Points, id \in SetupIds,
        inst \in InstanceChoices, sat \in BOOLEAN}

PreparedInputChoices ==
    {[valid |-> v, vk |-> id, inputs |-> inst] :
        v \in BOOLEAN, id \in SetupIds, inst \in InstanceChoices}

\* the verifying keys of the setup calls for the token circuit
VerifyingKeyChoices ==
    {GenerateKeys(synthesize(TokenVerificationCircuit_new(BigOfInt(1000), BigOfInt(500)).val).val, id).vk :
        id \in SetupIds}

InitVerify ==
    /\ NoCircuit
    /\ debug_assertions = TRUE
    /\ IdleProver
    /\ IdleVerifier
    /\ IdleOnChain
    /\ IdleOther

\* verify(&proof, &public_inputs, &vk)
Verify(proof, inputs, vk) ==
    /\ verifyArgs' = [proof |-> proof, inputs |-> inputs, vk |-> vk]
    /\ generalResult' = verify(proof, inputs, vk)
    /\ UNCHANGED <<varsCircuit, varsProver, varsOnChain, varsOther>>

NextVerify ==
    \E proof \in ProofChoices, inputs \in PreparedInputChoices, vk \in VerifyingKeyChoices :
        Verify(proof, inputs, vk)

SpecVerify == InitVerify /\ [][NextVerify]_vars

(***************************************************************************)
(* Specification SpecVerifyBoth: verify is called as in SpecVerify, and    *)
(* verify_proof_package is called on a package holding the proof, the      *)
(* prepared input and the prepared verifying key of that call, each once.  *)
(***************************************************************************)
\* the ProofPackage with the proof and the prepared input of args and prepare(vk)
PackageOf(args) ==
    [proof |-> args.proof, public_inputs |-> args.inputs,
     prepared_verifying_key |-> prepare_verifying_key(args.vk)]

\* verify_proof_package(&proof_package)
VerifyPackage ==
    /\ verifyArgs # None
    /\ packageCall' = [package |-> PackageOf(verifyArgs),
                       result |-> verify_proof_package(PackageOf(verifyArgs))]
    /\ UNCHANGED <<varsCircuit, varsProver, varsVerifier, varsOnChain, varsRace, varsProgram,
                   varsEndian, varsCodec, varsEscrow, varsCommit>>

NextVerifyBoth ==
    \/ verifyArgs = None /\ NextVerify
    \/ packageCall = None /\ VerifyPackage

SpecVerifyBoth == InitVerify /\ [][NextVerifyBoth]_vars

(***************************************************************************)
(* Claims about the general verifier.                                      *)
(***************************************************************************)
VerifyCalled == verifyArgs # None

\* the pairing equation of the last verify call's arguments
VerifyArgsPairingHolds ==
    PairingHolds(prepare_verifying_key(verifyArgs.vk), verifyArgs.proof, verifyArgs.inputs)

\* C6 as claimed: verify returns Err(InvalidPublicInput) when the prepared
\* input point fails the check, Err(InvalidProof) when any of the proof points
\* A, B, C fails it, runs the pairing check only when all four points pass,
\* and a well-formed proof whose pairing equation does not hold yields
\* Ok(false).
C6_VerifyClassification ==
    VerifyCalled =>
        /\ ~is_valid_point(verifyArgs.inputs) => IsErr(generalResult, "InvalidPublicInput")
        /\ ~is_valid_proof(verifyArgs.proof) => IsErr(generalResult, "InvalidProof")
        /\ IsOk(generalResult) => is_valid_point(verifyArgs.inputs) /\ is_valid_proof(verifyArgs.proof)
        /\ (is_valid_point(verifyArgs.inputs) /\ is_valid_proof(verifyArgs.proof)
                /\ ~VerifyArgsPairingHolds) => generalResult = Ok(FALSE)

\* C6 amended: verify returns Err(InvalidPublicInput) when the prepared input
\* point fails the check; Err(InvalidProof) when the prepared input passes and
\* any of the proof points A, B, C fails; it returns Ok only when all four
\* points pass, and then Ok(b) with b the truth of the pairing equation, so a
\* well-formed proof whose equation does not hold yields Ok(false).
C6_VerifyClassificationInputFirst ==
    VerifyCalled =>
        /\ ~is_valid_point(verifyArgs.inputs) => IsErr(generalResult, "InvalidPublicInput")
        /\ (is_valid_point(verifyArgs.inputs) /\ ~is_valid_proof(verifyArgs.proof)) =>
               IsErr(generalResult, "InvalidProof")
        /\ IsOk(generalResult) => is_valid_point(verifyArgs.inputs) /\ is_valid_proof(verifyArgs.proof)
        /\ (is_valid_point(verifyArgs.inputs) /\ is_valid_proof(verifyArgs.proof)) =>
               generalResult = Ok(VerifyArgsPairingHolds)

\* C6 witness: the prepared input and proof point A both fail the check and
\* the call is rejected for the input
C6_Witness ==
    /\ VerifyCalled
    /\ ~is_valid_point(verifyArgs.inputs)
    /\ ~verifyArgs.proof.a.valid
    /\ generalResult = Err("InvalidPublicInput")

(***************************************************************************)
(* proof-verify/src/lib.rs: the prepared verifier of the on-chain program. *)
(* Byte strings have their real lengths.  The pairing primitive is         *)
(* external: a call either fails (transport or computation failure) or     *)
(* completes with a 32-byte result whose last byte is 1 when the pairing   *)
(* equation holds of the input and 0 when it does not.                     *)
\* both functions have been called on the same proof, prepared input and key
BothCalled == verifyArgs # None /\ packageCall # None /\ packageCall.package = PackageOf(verifyArgs)

\* C24 as claimed: verify(proof, prepared_input, vk) and verify_proof_package
\* on a package holding the same proof, the same prepared input and
\* prepare(vk) return the same result for all inputs, with the same error
\* variant when both the proof points and the prepared input are invalid.
C24_SameResult ==
    BothCalled => packageCall.result = generalResult

\* C24 amended: the two return the same result unless a proof point and the
\* prepared input are both invalid; then verify returns InvalidPublicInput
\* and verify_proof_package returns InvalidProof.
C24_SameResultUnlessBothInvalid ==
    BothCalled =>
        IF ~is_valid_proof(verifyArgs.proof) /\ ~is_valid_point(verifyArgs.inputs)
        THEN /\ generalResult = Err("InvalidPublicInput")
             /\ packageCall.result = Err("InvalidProof")
        ELSE packageCall.result = generalResult

\* C24 witness: an invalid proof point with an invalid prepared input went
\* through both functions
C24_Witness ==
    /\ BothCalled
    /\ ~verifyArgs.proof.b.valid
    /\ ~is_valid_point(verifyArgs.inputs)
    /\ packageCall.result = Err("InvalidProof")

\* both returned Ok(true), and both returned the one error a single invalid point gives
C24_AgreeWitness ==
    /\ BothCalled
    /\ packageCall.result = generalResult
    /\ generalResult \in {Ok(TRUE), Err("InvalidProof")}

(***************************************************************************)
G1Len == 64

G2Len == 128

\* [0u8; n]
ZeroArray(n) == [i \in 1..n |-> 0]

\* dst.copy_from_slice(src), the lengths being equal
copy_from_slice(dst, src) == [i \in 1..Len(dst) |-> src[i]]

\* mutant of Groth16VerifierPrepared_new: proof_b is checked before proof_a
Groth16VerifierPrepared_new_G2First(proof_a, proof_b, proof_c, prepared_public_inputs, verifying_key) ==
    IF Len(proof_b) # G2Len THEN Err("InvalidG2Length")
    ELSE IF Len(proof_a) # G1Len THEN Err("InvalidG1Length")
    ELSE IF Len(proof_c) # G1Len THEN Err("InvalidG1Length")
    ELSE IF Len(prepared_public_inputs) # G1Len THEN Err("InvalidPublicInputsLength")
    ELSE Ok([proof_a |-> copy_from_slice(ZeroArray(G1Len), proof_a),
             proof_b |-> copy_from_slice(ZeroArray(G2Len), proof_b),
             proof_c |-> copy_from_slice(ZeroArray(G1Len), proof_c),
             prepared_public_inputs |-> copy_from_slice(ZeroArray(G1Len), prepared_public_inputs),
             verifying_key |-> verifying_key])

\* Groth16VerifierPrepared::new
Groth16VerifierPrepared_new(proof_a, proof_b, proof_c, prepared_public_inputs, verifying_key) ==
    IF Len(proof_a) # G1Len THEN Err("InvalidG1Length")
    ELSE IF Len(proof_b) # G2Len THEN Err("InvalidG2Length")
    ELSE IF Len(proof_c) # G1Len THEN Err("InvalidG1Length")
    ELSE IF Len(prepared_public_inputs) # G1Len THEN Err("InvalidPublicInputsLength")
    ELSE Ok([proof_a |-> copy_from_slice(ZeroArray(G1Len), proof_a),
             proof_b |-> copy_from_slice(ZeroArray(G2Len), proof_b),
             proof_c |-> copy_from_slice(ZeroArray(G1Len), proof_c),
             prepared_public_inputs |-> copy_from_slice(ZeroArray(G1Len), prepared_public_inputs),
             verifying_key |-> verifying_key])

\* mutant of PairingInput: proof C is placed before vk gamma
PairingInput_ProofCFirst(self) ==
    self.proof_a \o self.proof_b \o self.prepared_public_inputs \o self.proof_c
        \o self.verifying_key.vk_gamma_g2 \o self.verifying_key.vk_delta_g2
        \o self.verifying_key.vk_alpha_g1 \o self.verifying_key.vk_beta_g2

\* mutant of PairingInput: vk beta is left out
PairingInput_WithoutBeta(self) ==
    self.proof_a \o self.proof_b \o self.prepared_public_inputs \o self.verifying_key.vk_gamma_g2
        \o self.proof_c \o self.verifying_key.vk_delta_g2 \o self.verifying_key.vk_alpha_g1

\* the buffer Groth16VerifierPrepared::verify assembles: [..].concat()
PairingInput(self) ==
    self.proof_a \o self.proof_b \o self.prepared_public_inputs \o self.verifying_key.vk_gamma_g2
        \o self.proof_c \o self.verifying_key.vk_delta_g2 \o self.verifying_key.vk_alpha_g1
        \o self.verifying_key.vk_beta_g2

\* the pairing primitive on one input: completed tells whether the call went
\* through, equation whether the pairing equation holds of the input
AltBn128Pairing(completed, equation) ==
    IF ~completed THEN Err("ProgramError") ELSE Ok(IF equation THEN 1 ELSE 0)

\* invoke(&ix, accounts).map_err(|_| PairingVerificationError)?; Ok(true)
\* where invoked is what the pairing primitive did with ix
Groth16VerifierPrepared_verify(self, invoked) ==
    IF ~invoked.ok THEN Err("PairingVerificationError") ELSE Ok(TRUE)

(***************************************************************************)
(* Specification SpecOnChain: a verifier is constructed once from byte     *)
(* slices, each of the right length, one shorter or one longer, and verify *)
(* is then called on it.  The contents of each slice are a byte pattern of *)
(* its own, so that the place of every field in a buffer can be told.      *)
(***************************************************************************)
MaxTag == 1

LengthSlack == 1

MaxVerifyCalls == 2

\* n bytes counting up from base
Bytes(base, n) == [i \in 1..n |-> (base + i) % 256]

Slices(base, tag, len) == {Bytes(base + tag, n) : n \in (len - LengthSlack)..(len + LengthSlack)}

VerifyingKeyOf(tag) ==
    [vk_alpha_g1 |-> Bytes(150 + tag, G1Len), vk_beta_g2 |-> Bytes(180 + tag, G2Len),
     vk_gamma_g2 |-> Bytes(210 + tag, G2Len), vk_delta_g2 |-> Bytes(240 + tag, G2Len)]

InitOnChain ==
    /\ NoCircuit
    /\ debug_assertions = TRUE
    /\ IdleProver
    /\ IdleVerifier
    /\ IdleOnChain
    /\ IdleOther

\* Groth16VerifierPrepared::new(&proof_a, &proof_b, &proof_c, &prepared_public_inputs, vk);
\* equation is a fact about the bytes given: whether their pairing equation holds
VerifierNew(proof_a, proof_b, proof_c, prepared_public_inputs, verifying_key, equation) ==
    /\ verifierArgs = None
    /\ verifierArgs' = [proof_a |-> proof_a, proof_b |-> proof_b, proof_c |-> proof_c,
                        prepared_public_inputs |-> prepared_public_inputs,
                        verifying_key |-> verifying_key]
    /\ verifier' = Groth16VerifierPrepared_new(proof_a, proof_b, proof_c, prepared_public_inputs,
                                               verifying_key)
    /\ pairingEquation' = equation
    /\ UNCHANGED <<pairingCalls, onchainResult, varsCircuit, varsProver, varsVerifier, varsOther>>

\* verifier.verify(accounts); completed is whether the call to the pairing
\* primitive goes through
VerifierVerify(completed) ==
    /\ IsOk(verifier)
    /\ Len(pairingCalls) < MaxVerifyCalls
    /\ pairingCalls' = Append(pairingCalls, [data |-> PairingInput(verifier.val),
                                             result |-> AltBn128Pairing(completed, pairingEquation)])
    /\ onchainResult' = Groth16VerifierPrepared_verify(verifier.val,
                                                       AltBn128Pairing(completed, pairingEquation))
    /\ UNCHANGED <<verifierArgs, verifier, pairingEquation, varsCircuit, varsProver, varsVerifier, varsOther>>

NextOnChain ==
    \/ \E tag \in 0..MaxTag, equation \in BOOLEAN :
          \E proof_a \in Slices(0, tag, G1Len), proof_b \in Slices(30, tag, G2Len),
             proof_c \in Slices(60, tag, G1Len), prepared_public_inputs \in Slices(90, tag, G1Len) :
                VerifierNew(proof_a, proof_b, proof_c, prepared_public_inputs, VerifyingKeyOf(tag),
                            equation)
    \/ \E completed \in BOOLEAN : VerifierVerify(completed)

SpecOnChain == InitOnChain /\ [][NextOnChain]_vars

(***************************************************************************)
(* Claims about the prepared verifier.                                     *)
(***************************************************************************)
LastPairingCall == pairingCalls[Len(pairingCalls)]

\* C4 as claimed: Groth16VerifierPrepared::verify returns Ok(true) only when
\* the pairing primitive has determined that the pairing equation holds; a
\* completed call whose pairing result is negative yields false or a failure.
C4_NegativePairingNeverSuccess ==
    onchainResult # None =>
        /\ onchainResult = Ok(TRUE) => LastPairingCall.result = Ok(1)
        /\ LastPairingCall.result = Ok(0) => onchainResult # Ok(TRUE)

\* the concatenation, in the order of the pairing input layout, of the values
\* given to the constructor
ExpectedPairingInput ==
    verifierArgs.proof_a \o verifierArgs.proof_b \o verifierArgs.prepared_public_inputs
        \o verifierArgs.verifying_key.vk_gamma_g2 \o verifierArgs.proof_c
        \o verifierArgs.verifying_key.vk_delta_g2 \o verifierArgs.verifying_key.vk_alpha_g1
        \o verifierArgs.verifying_key.vk_beta_g2

\* C7: every buffer verify hands to the pairing primitive is the
\* concatenation, in this order, of proof A, proof B, prepared public input,
\* vk gamma, proof C, vk delta, vk alpha, vk beta, each as given to the
\* constructor.
C7_PairingInputLayout ==
    \A k \in 1..Len(pairingCalls) : pairingCalls[k].data = ExpectedPairingInput

\* C7 witness: verify has handed a buffer to the primitive in which the 64
\* bytes after proof A, proof B, the input and vk gamma are proof C as given
\* to the constructor
C7_Witness ==
    /\ Len(pairingCalls) > 0
    /\ SubSeq(pairingCalls[1].data, 2 * G1Len + 2 * G2Len + 1, 3 * G1Len + 2 * G2Len)
           = verifierArgs.proof_c
    /\ verifierArgs.proof_c # verifierArgs.proof_a

\* the eight fields of the constructed verifier have the lengths 64, 128, 64,
\* 128, 64, 128, 64, 128 in the order of the buffer
FieldLengthsAsLaidOut ==
    /\ Len(verifier.val.proof_a) = 64
    /\ Len(verifier.val.proof_b) = 128
    /\ Len(verifier.val.prepared_public_inputs) = 64
    /\ Len(verifier.val.verifying_key.vk_gamma_g2) = 128
    /\ Len(verifier.val.proof_c) = 64
    /\ Len(verifier.val.verifying_key.vk_delta_g2) = 128
    /\ Len(verifier.val.verifying_key.vk_alpha_g1) = 64
    /\ Len(verifier.val.verifying_key.vk_beta_g2) = 128

\* C8 as claimed: the buffer assembled from fields of lengths 64, 128, 64,
\* 128, 64, 128, 64, 128 always has a total length of 832 bytes.
C8_PairingInputLength832 ==
    \A k \in 1..Len(pairingCalls) :
        FieldLengthsAsLaidOut /\ Len(pairingCalls[k].data) = 832

\* C8 amended: the buffer assembled from fields of lengths 64, 128, 64, 128,
\* 64, 128, 64, 128 always has a total length of 768 bytes (the sum of these
\* lengths: four G1 points and four G2 points).
C8_PairingInputLength768 ==
    \A k \in 1..Len(pairingCalls) :
        FieldLengthsAsLaidOut /\ Len(pairingCalls[k].data) = 768

\* C8 witness: buffers of 768 bytes have been handed to the primitive
C8_Witness ==
    /\ Len(pairingCalls) = MaxVerifyCalls
    /\ Len(pairingCalls[MaxVerifyCalls].data) = 4 * G1Len + 4 * G2Len
    /\ Len(pairingCalls[MaxVerifyCalls].data) = 768

AllLengthsRight ==
    /\ Len(verifierArgs.proof_a) = G1Len
    /\ Len(verifierArgs.proof_b) = G2Len
    /\ Len(verifierArgs.proof_c) = G1Len
    /\ Len(verifierArgs.prepared_public_inputs) = G1Len

\* the error of the first failing length check, in the order A, B, C, input
FirstLengthError ==
    IF Len(verifierArgs.proof_a) # G1Len THEN "InvalidG1Length"
    ELSE IF Len(verifierArgs.proof_b) # G2Len THEN "InvalidG2Length"
    ELSE IF Len(verifierArgs.proof_c) # G1Len THEN "InvalidG1Length"
    ELSE "InvalidPublicInputsLength"

\* C9: new succeeds if and only if |proof_a| = 64, |proof_b| = 128,
\* |proof_c| = 64 and |prepared_public_inputs| = 64; otherwise it returns the
\* error of the first failing check in the order A, B, C, input; and no
\* pairing call is made before or during construction (none before verify is
\* called, none ever when construction fails).
C9_ConstructorLengthChecks ==
    /\ verifierArgs = None => (verifier = None /\ pairingCalls = <<>>)
    /\ verifierArgs # None =>
          /\ IsOk(verifier) <=> AllLengthsRight
          /\ ~AllLengthsRight => verifier = Err(FirstLengthError)
          /\ (onchainResult = None \/ ~IsOk(verifier)) => pairingCalls = <<>>

\* C9 witness: proof_a has the right length, proof_b and the input do not:
\* the constructor reports the G2 length and no pairing call was made
C9_Witness ==
    /\ verifierArgs # None
    /\ Len(verifierArgs.proof_a) = G1Len
    /\ Len(verifierArgs.proof_b) = G2Len - 1
    /\ Len(verifierArgs.prepared_public_inputs) = G1Len + 1
    /\ verifier = Err("InvalidG2Length")
    /\ pairingCalls = <<>>


(***************************************************************************)
(* proof-verify/src/lib.rs: the instruction handlers and the               *)
(* VerificationState account.  An account is its lamports and its data     *)
(* bytes; the accounts slice of an instruction is a sequence of account    *)
(* keys.  VerificationState is Borsh-encoded: total_verifications as 8     *)
(* little-endian bytes, the 32 bytes of last_amount, last_timestamp as 8   *)
(* little-endian bytes (timestamps are non-negative here).                 *)
(***************************************************************************)
VerificationState_LEN == 8 + 32 + 8

\* ()
Unit == <<>>

\* VerificationState::try_from_slice: fails on a slice that is too short or
\* that has bytes left over
VerificationState_try_from_slice(data) ==
    IF Len(data) # VerificationState_LEN THEN Err("BorshIoError")
    ELSE Ok([total_verifications |-> OfLeBytes(SubSeq(data, 1, 8)),
             last_amount |-> SubSeq(data, 9, 40),
             last_timestamp |-> OfLeBytes(SubSeq(data, 41, 48))])

\* the Borsh bytes of a VerificationState
VerificationState_bytes(state) ==
    LeBytes(state.total_verifications, 8) \o state.last_amount \o LeBytes(state.last_timestamp, 8)

\* state.serialize(&mut &mut data[..]): the bytes are written over the start of data
VerificationState_serialize(state, data) ==
    VerificationState_bytes(state) \o SubSeq(data, VerificationState_LEN + 1, Len(data))

\* total_verifications += 1; last_amount.copy_from_slice(&amount[..32]);
\* last_timestamp = Clock::get()?.unix_timestamp
UpdatedState(state, amount, unix_timestamp) ==
    [total_verifications |-> BigAdd(state.total_verifications, BigOfInt(1)),
     last_amount |-> copy_from_slice(state.last_amount, SubSeq(amount, 1, 32)),
     last_timestamp |-> unix_timestamp]

\* an instruction's outcome: its result and the accounts it leaves
Outcome(result, led) == [result |-> result, ledger |-> led]

\* update_on_chain_state_with_amount once the account data is decoded
UpdateDecoded(led, key, amount, clock, state) ==
    IF ~state.ok THEN Outcome(state, led)
    ELSE IF ~clock.ok THEN Outcome(clock, led)
    ELSE Outcome(Ok(Unit),
                 [led EXCEPT ![key].data =
                      VerificationState_serialize(UpdatedState(state.val, amount, clock.val),
                                                  led[key].data)])

\* update_on_chain_state_with_amount(account, amount); clock is what Clock::get() returns
update_on_chain_state_with_amount(led, key, amount, clock) ==
    UpdateDecoded(led, key, amount, clock, VerificationState_try_from_slice(led[key].data))

\* verify_proof after groth16_verifier_prepared.verify(accounts) returned verified
VerifyProofAfter(led, accounts, self, verified, clock) ==
    IF ~verified.ok THEN Outcome(Err("InvalidAccountData"), led)
    ELSE IF ~verified.val THEN Outcome(Err("InvalidAccountData"), led)
    ELSE IF accounts = <<>> THEN Outcome(Err("NotEnoughAccountKeys"), led)
    ELSE update_on_chain_state_with_amount(led, accounts[1], self.prepared_public_inputs, clock)

\* verify_proof(accounts, groth16_verifier_prepared); invoked is what the
\* pairing primitive did with the instruction verify sent it
verify_proof(led, accounts, self, invoked, clock) ==
    VerifyProofAfter(led, accounts, self, Groth16VerifierPrepared_verify(self, invoked), clock)

\* accounts.iter().find(|a| a.key == &account_to_check)
FindAccount(accounts, account_to_check) ==
    IF \E i \in 1..Len(accounts) : accounts[i] = account_to_check THEN Ok(account_to_check)
    ELSE Err("InvalidAccountData")

\* mutant of BalanceChecked: the state is updated before the balance is compared
BalanceChecked_UpdateFirst(led, accounts, self, required_balance, account_to_check, clock) ==
    IF led[account_to_check].lamports >= required_balance
    THEN update_on_chain_state_with_amount(led, accounts[1], self.prepared_public_inputs, clock)
    ELSE Outcome(Err("InsufficientFunds"),
                 update_on_chain_state_with_amount(led, accounts[1], self.prepared_public_inputs,
                                                   clock).ledger)

\* verify_proof_with_balance once account_to_check is found among the accounts
\* (which are then not empty)
BalanceChecked(led, accounts, self, required_balance, account_to_check, clock) ==
    IF led[account_to_check].lamports >= required_balance
    THEN update_on_chain_state_with_amount(led, accounts[1], self.prepared_public_inputs, clock)
    ELSE Outcome(Err("InsufficientFunds"), led)

\* verify_proof_with_balance after verify returned verified
VerifyProofWithBalanceAfter(led, accounts, self, required_balance, account_to_check, verified, clock) ==
    IF ~verified.ok THEN Outcome(Err("InvalidAccountData"), led)
    ELSE IF ~verified.val THEN Outcome(Err("InvalidAccountData"), led)
    ELSE IF ~FindAccount(accounts, account_to_check).ok
    THEN Outcome(FindAccount(accounts, account_to_check), led)
    ELSE BalanceChecked(led, accounts, self, required_balance, account_to_check, clock)

\* verify_proof_with_balance(accounts, groth16_verifier_prepared, required_balance, account_to_check)
verify_proof_with_balance(led, accounts, self, required_balance, account_to_check, invoked, clock) ==
    VerifyProofWithBalanceAfter(led, accounts, self, required_balance, account_to_check,
                                Groth16VerifierPrepared_verify(self, invoked), clock)

(***************************************************************************)
(* Specification SpecProgram: the program processes VerifyProof and        *)
(* VerifyProofWithBalance instructions carrying one and the same verifier, *)
(* on any accounts.  The chain holds a state account (zeroed, holding an   *)
(* earlier state, or one byte short of a VerificationState) and a wallet.  *)
(***************************************************************************)
\* an earlier state: 300 verifications, the last at time 5
EarlierState ==
    [total_verifications |-> BigOfInt(300), last_amount |-> Bytes(7, 32), last_timestamp |-> BigOfInt(5)]

StateDataChoices ==
    {ZeroArray(VerificationState_LEN), VerificationState_bytes(EarlierState),
     ZeroArray(VerificationState_LEN - 1)}

AccountLists ==
    {<<>>, <<"state">>, <<"wallet">>, <<"state", "wallet">>, <<"wallet", "state">>}

\* the accounts an instruction may name to have their balance checked
CheckedAccounts == {"state", "wallet", "absent"}

\* lamports of the state account and of the wallet, and the balances asked for
Balances == [state |-> 1, wallet |-> 5, required |-> {1, 5, 6}]

\* what Clock::get() may return
ClockChoices == {Ok(BigOfInt(7)), Ok(BigOfInt(70000)), Err("UnsupportedSysvar")}

InitProgram ==
    /\ NoCircuit
    /\ debug_assertions = TRUE
    /\ IdleProver
    /\ IdleVerifier
    /\ IdleRace
    /\ IdleEndian
    /\ IdleCodec
    /\ IdlePackage
    /\ IdleEscrow
    /\ IdleCommit
    /\ \E tag \in 0..MaxTag :
          /\ verifierArgs = [proof_a |-> Bytes(tag, G1Len), proof_b |-> Bytes(30 + tag, G2Len),
                             proof_c |-> Bytes(60 + tag, G1Len),
                             prepared_public_inputs |-> Bytes(90 + tag, G1Len),
                             verifying_key |-> VerifyingKeyOf(tag)]
          /\ verifier = Groth16VerifierPrepared_new(Bytes(tag, G1Len), Bytes(30 + tag, G2Len),
                                                    Bytes(60 + tag, G1Len), Bytes(90 + tag, G1Len),
                                                    VerifyingKeyOf(tag))
    /\ pairingEquation \in BOOLEAN
    /\ pairingCalls = <<>>
    /\ onchainResult = None
    /\ \E data \in StateDataChoices :
          ledger = [k \in {"state", "wallet"} |->
                       IF k = "state" THEN [lamports |-> Balances.state, data |-> data]
                       ELSE Wallet(Balances.wallet)]
    /\ instruction = None

\* the instruction is recorded with the accounts as they were before it
ProgramOutcome(kind, accounts, out) ==
    /\ ledger' = out.ledger
    /\ instruction' = [kind |-> kind, accounts |-> accounts, before |-> ledger, result |-> out.result]

ProgramFrame ==
    UNCHANGED <<verifierArgs, verifier, pairingEquation, onchainResult, varsCircuit, varsProver,
                varsVerifier, varsRace, varsEndian, varsCodec, varsPackage, varsEscrow, varsCommit>>

PairingCalled(completed) ==
    pairingCalls' = Append(pairingCalls, [data |-> PairingInput(verifier.val),
                                          result |-> AltBn128Pairing(completed, pairingEquation)])

\* process_instruction on ProgramInstruction::VerifyProof(proof_package)
ProcessVerifyProof(accounts, completed, clock) ==
    /\ IsOk(verifier)
    /\ Len(pairingCalls) < MaxVerifyCalls
    /\ PairingCalled(completed)
    /\ ProgramOutcome("VerifyProof", accounts,
                      verify_proof(ledger, accounts, verifier.val,
                                   AltBn128Pairing(completed, pairingEquation), clock))
    /\ ProgramFrame

\* process_instruction on ProgramInstruction::VerifyProofWithBalance { .. }
ProcessVerifyProofWithBalance(accounts, required_balance, account_to_check, completed, clock) ==
    /\ IsOk(verifier)
    /\ Len(pairingCalls) < MaxVerifyCalls
    /\ PairingCalled(completed)
    /\ ProgramOutcome("VerifyProofWithBalance", accounts,
                      verify_proof_with_balance(ledger, accounts, verifier.val, required_balance,
                                                account_to_check,
                                                AltBn128Pairing(completed, pairingEquation), clock))
    /\ ProgramFrame

NextProgram ==
    \/ \E accounts \in AccountLists, completed \in BOOLEAN, clock \in ClockChoices :
          ProcessVerifyProof(accounts, completed, clock)
    \/ \E accounts \in AccountLists, required_balance \in Balances.required,
          account_to_check \in CheckedAccounts, completed \in BOOLEAN, clock \in ClockChoices :
             ProcessVerifyProofWithBalance(accounts, required_balance, account_to_check,
                                           completed, clock)

SpecProgram == InitProgram /\ [][NextProgram]_vars

(***************************************************************************)
(* Claims about the instruction handlers.                                  *)
(***************************************************************************)
\* the account the last instruction names first, before and after it
StateBefore == instruction.before[instruction.accounts[1]]

StateAfter == ledger[instruction.accounts[1]]

\* C17: the VerificationState account changes only when an instruction
\* succeeds.  A failing instruction leaves every account as it was.  A
\* successful VerifyProof or VerifyProofWithBalance increments
\* total_verifications (the first 8 bytes, little-endian) of the first account
\* by exactly 1, sets last_amount (the next 32 bytes) to the first 32 bytes of
\* the prepared public input, and leaves lamports and all other accounts alone.
C17_StateChangesOnlyOnSuccess ==
    instruction # None =>
        /\ ~instruction.result.ok => ledger = instruction.before
        /\ instruction.result.ok =>
              /\ instruction.accounts # <<>>
              /\ Len(StateAfter.data) = 48
              /\ OfLeBytes(SubSeq(StateAfter.data, 1, 8)) =
                     BigAdd(OfLeBytes(SubSeq(StateBefore.data, 1, 8)), BigOfInt(1))
              /\ SubSeq(StateAfter.data, 9, 40) = SubSeq(verifier.val.prepared_public_inputs, 1, 32)
              /\ StateAfter.lamports = StateBefore.lamports
              /\ \A k \in DOMAIN ledger :
                     k # instruction.accounts[1] => ledger[k] = instruction.before[k]

\* C17 witness: a VerifyProofWithBalance instruction succeeded on a state
\* account that held 300 verifications: it now holds 301 (bytes 45, 1)
C17_Witness ==
    /\ instruction # None
    /\ instruction.kind = "VerifyProofWithBalance"
    /\ instruction.result = Ok(Unit)
    /\ SubSeq(StateBefore.data, 1, 8) = <<44, 1, 0, 0, 0, 0, 0, 0>>
    /\ SubSeq(StateAfter.data, 1, 8) = <<45, 1, 0, 0, 0, 0, 0, 0>>
    /\ SubSeq(StateAfter.data, 9, 40) = SubSeq(verifier.val.prepared_public_inputs, 1, 32)


(***************************************************************************)
(* byte_utils.rs: convert_endianness.  A u32 is kept as a two-limb         *)
(* integer; its bytes are taken and put back as the code does.             *)
(***************************************************************************)
\* the sequence in reverse order
RECURSIVE Reverse(_)
Reverse(b) == IF b = <<>> THEN <<>> ELSE Reverse(Tail(b)) \o <<Head(b)>>

\* u32::from_le_bytes
u32_from_le_bytes(b) == OfLeBytes(b)

\* u32::to_be_bytes
u32_to_be_bytes(value) == Reverse(LeBytes(value, 4))

\* mutant of swap_bytes: value >> 8
shift_right_8(value) == OfLeBytes(SubSeq(LeBytes(value, 4), 2, 4) \o <<0>>)

\* u32::swap_bytes
swap_bytes(value) == OfLeBytes(Reverse(LeBytes(value, 4)))

\* what the loop body writes to output[start..start + 4] for one chunk of input
ConvertChunk(chunk) == u32_to_be_bytes(swap_bytes(u32_from_le_bytes(chunk)))

\* std::cmp::min
Min(a, b) == IF a <= b THEN a ELSE b

\* the output after the loop: the converted chunks, then the zeros output started with
ConvertedOutput(input, output, copy_size) ==
    [i \in 1..Len(output) |->
        IF i <= 4 * (copy_size \div 4)
        THEN ConvertChunk(SubSeq(input, 4 * ((i - 1) \div 4) + 1, 4 * ((i - 1) \div 4) + 4))[((i - 1) % 4) + 1]
        ELSE output[i]]

\* mutant of convert_endianness: only the output size is checked
convert_endianness_OutputSizeOnly(input, OUTPUT_SIZE) ==
    IF OUTPUT_SIZE % 4 # 0
    THEN Err("Input and output sizes must be multiples of 4 bytes")
    ELSE Ok(ConvertedOutput(input \o <<0, 0, 0>>, ZeroArray(OUTPUT_SIZE), Min(Len(input), OUTPUT_SIZE)))

\* convert_endianness::<INPUT_SIZE, OUTPUT_SIZE>(&input), INPUT_SIZE being Len(input)
convert_endianness(input, OUTPUT_SIZE) ==
    IF Len(input) % 4 # 0 \/ OUTPUT_SIZE % 4 # 0
    THEN Err("Input and output sizes must be multiples of 4 bytes")
    ELSE Ok(ConvertedOutput(input, ZeroArray(OUTPUT_SIZE), Min(Len(input), OUTPUT_SIZE)))

(***************************************************************************)
(* Specification SpecEndian: convert_endianness is called on a buffer,     *)
(* and then again, with equal sizes, on what it returned.  Buffers count   *)
(* up from a base (so the four bytes of a chunk differ), wrapping at 256.  *)
(***************************************************************************)
MaxChunks == 2

EndianBases == {0, 126, 253}

EndianLengths == 0..(4 * MaxChunks + 1)

EndianOutputSizes == {4 * k : k \in 0..(MaxChunks + 1)} \cup {3}

InitEndian ==
    /\ NoCircuit
    /\ debug_assertions = TRUE
    /\ IdleProver
    /\ IdleVerifier
    /\ IdleOnChain
    /\ IdleRace
    /\ IdleProgram
    /\ IdleCodec
    /\ IdlePackage
    /\ IdleEscrow
    /\ IdleCommit
    /\ endianIn \in {Bytes(base, n) : base \in EndianBases, n \in EndianLengths}
    /\ endianSize = 0
    /\ endianOut = None
    /\ endianBack = None

EndianFrame == UNCHANGED <<varsCircuit, varsProver, varsVerifier, varsOnChain, varsRace, varsProgram, varsCodec, varsPackage, varsEscrow, varsCommit>>

\* convert_endianness::<N, OUTPUT_SIZE>(&input)
Convert(OUTPUT_SIZE) ==
    /\ endianOut = None
    /\ endianSize' = OUTPUT_SIZE
    /\ endianOut' = convert_endianness(endianIn, OUTPUT_SIZE)
    /\ UNCHANGED <<endianIn, endianBack>>
    /\ EndianFrame

\* convert_endianness::<M, M>(&converted) on the buffer returned
ConvertBack ==
    /\ IsOk(endianOut)
    /\ endianBack = None
    /\ endianBack' = convert_endianness(endianOut.val, Len(endianOut.val))
    /\ UNCHANGED <<endianIn, endianSize, endianOut>>
    /\ EndianFrame

NextEndian ==
    \/ \E OUTPUT_SIZE \in EndianOutputSizes \cup {Len(endianIn)} : Convert(OUTPUT_SIZE)
    \/ ConvertBack

SpecEndian == InitEndian /\ [][NextEndian]_vars

(***************************************************************************)
(* Claims about convert_endianness.                                        *)
(***************************************************************************)
\* C19 as claimed: for every chunk index k below min(IN, OUT)/4, output bytes
\* 4k..4k+3 are the input bytes 4k..4k+3 in reversed order.
C19_ChunksReversed ==
    IsOk(endianOut) =>
        \A k \in 0..((Min(Len(endianIn), endianSize) \div 4) - 1) :
            \A j \in 1..4 : endianOut.val[4 * k + j] = endianIn[4 * k + 5 - j]

\* C20: convert_endianness is self-inverse on aligned buffers: for a buffer b
\* whose length N is a multiple of 4, convert_endianness::<N, N> applied to
\* convert_endianness::<N, N>(b) returns b.
C20_SelfInverse ==
    (Len(endianIn) % 4 = 0 /\ endianSize = Len(endianIn) /\ endianBack # None) =>
        /\ IsOk(endianOut)
        /\ endianBack = Ok(endianIn)

\* C22: convert_endianness returns an error, and no output buffer, whenever
\* the input size or the output size is not a multiple of 4; it returns Ok
\* (a buffer of the output size) for every pair of sizes that are both
\* multiples of 4.
C22_ErrIffUnaligned ==
    endianOut # None =>
        IF Len(endianIn) % 4 = 0 /\ endianSize % 4 = 0
        THEN IsOk(endianOut) /\ Len(endianOut.val) = endianSize
        ELSE /\ endianOut = Err("Input and output sizes must be multiples of 4 bytes")
             /\ "val" \notin DOMAIN endianOut
             /\ ~ENABLED ConvertBack

\* C22 witness: a 5-byte input with an aligned output size was refused
C22_Witness ==
    /\ Len(endianIn) = 5
    /\ endianSize = 8
    /\ IsErr(endianOut, "Input and output sizes must be multiples of 4 bytes")

\* an aligned input with a 3-byte output size was refused, and aligned sizes
\* that differ were accepted
C22_OutputWitness ==
    /\ Len(endianIn) = 4
    /\ \/ endianSize = 3 /\ IsErr(endianOut, "Input and output sizes must be multiples of 4 bytes")
       \/ endianSize = 12 /\ IsOk(endianOut)

\* C20 witness: an 8-byte buffer whose words have their top bit set went
\* through both calls and came back
C20_Witness ==
    /\ endianIn = <<254, 255, 0, 1, 2, 3, 4, 5>>
    /\ endianSize = 8
    /\ IsOk(endianOut)
    /\ endianBack = Ok(endianIn)


(***************************************************************************)
(* Specification SpecCodec: field_to_bytes is applied to a field element   *)
(* and bytes_to_field to the buffer it returned.  The elements lie around  *)
(* the byte, limb and 2^32 boundaries, on both sides of zero (r - n is the *)
(* two-limb integer -n), and include one whose canonical value fits no     *)
(* two limbs.                                                              *)
(***************************************************************************)
CodecHigh == {0, 1, 256, 131071, 131072, 2^25 - 1}

CodecLow == {0, 1, 255, 256, Limb - 1}

CodecMagnitudes == {[hi |-> h, lo |-> l] : h \in CodecHigh, l \in CodecLow}

\* 2^40, the least canonical value kept as bytes
CodecWide == [big |-> [i \in 1..FieldBytes |-> IF i = 6 THEN 1 ELSE 0]]

FieldSamples == CodecMagnitudes \cup {BigNeg(m) : m \in CodecMagnitudes} \cup {CodecWide}

InitCodec ==
    /\ NoCircuit
    /\ debug_assertions = TRUE
    /\ IdleProver
    /\ IdleVerifier
    /\ IdleOnChain
    /\ IdleRace
    /\ IdleProgram
    /\ IdleEndian
    /\ IdlePackage
    /\ IdleEscrow
    /\ IdleCommit
    /\ codecField \in FieldSamples
    /\ codecBytes = None
    /\ codecBack = None

CodecFrame == UNCHANGED <<varsCircuit, varsProver, varsVerifier, varsOnChain, varsRace, varsProgram, varsEndian, varsPackage, varsEscrow, varsCommit>>

\* field_to_bytes(field)
FieldToBytes ==
    /\ codecBytes = None
    /\ codecBytes' = field_to_bytes(codecField)
    /\ UNCHANGED <<codecField, codecBack>>
    /\ CodecFrame

\* bytes_to_field::<Fr>(&bytes)
BytesToField ==
    /\ codecBytes # None
    /\ codecBack = None
    /\ codecBack' = bytes_to_field(codecBytes)
    /\ UNCHANGED <<codecField, codecBytes>>
    /\ CodecFrame

NextCodec ==
    \/ FieldToBytes
    \/ BytesToField

SpecCodec == InitCodec /\ [][NextCodec]_vars

(***************************************************************************)
(* Claims about the field codec.                                           *)
(***************************************************************************)
\* C21: for all field elements f, bytes_to_field(field_to_bytes(f)) == f;
\* field_to_bytes always yields exactly 32 bytes, each a byte; and the
\* all-zero buffer decodes to the zero element.
C21_FieldRoundTrip ==
    /\ codecBytes # None =>
          /\ Len(codecBytes) = 32
          /\ \A i \in 1..32 : codecBytes[i] \in 0..255
    /\ codecBack # None =>
          /\ codecBack = Ok(codecField)
          /\ codecBytes = [i \in 1..32 |-> 0] => codecBack = Ok(FrZero)

\* C21 witness: r - 1 was serialized to the bytes of r less one and decoded back
C21_Witness ==
    /\ codecBack # None
    /\ codecField = FrNegOne
    /\ codecBytes = <<0>> \o Tail(RBytes)
    /\ codecBack = Ok(FrNegOne)

\* the zero buffer was decoded to the zero element
C21_ZeroWitness ==
    /\ codecBack # None
    /\ codecBytes = [i \in 1..32 |-> 0]
    /\ codecBack = Ok(FrZero)

(***************************************************************************)
(* escrow program: the enhanced escrow.  Accounts live at program-derived  *)
(* addresses: the escrow and the commitment storage of (initializer,       *)
(* commitment hash) and the proof batch and the vault of an escrow; an     *)
(* address is modelled by its seeds.  The chain is a record of the escrow, *)
(* storage, batch and vault accounts by pair (initializer, hash) and of    *)
(* the token balances by pair (owner, mint).  Fields no handler reads      *)
(* (bump, timestamps, privacy level, proof hashes) are left out.  An       *)
(* instruction that fails leaves the chain as it was.  The vault is an     *)
(* account only this program can create, and none of the four handlers     *)
(* creates it.  The chain also holds the offers of the original escrow,    *)
(* by pair (maker, id), each with the tokens it keeps for the taker.       *)
(***************************************************************************)
\* the result of an instruction and the chain after it
EscrowOutcome(result, chain) == [result |-> result, chain |-> chain]

\* solana_program::hash::hashv(&[&order_bytes, nonce]): SHA-256 of the
\* concatenation, taken as collision-free
hashv(order_bytes, nonce) == [sha256_of |-> <<order_bytes, nonce>>]

\* compute_commitment_hash(&order, &nonce); try_to_vec of an OrderDetails does not fail
compute_commitment_hash(order, nonce) == Ok(hashv(Serialize(order), nonce))

\* the accounts initialize_enhanced writes
InitializedEscrow(initializer, deposit, receive, commitment_hash, taker_amount) ==
    [initializer_key |-> initializer,
     initializer_deposit_token_account |-> deposit,
     initializer_receive_token_account |-> receive,
     initializer_amount |-> 0,
     taker_amount |-> taker_amount,
     commitment_hash |-> commitment_hash,
     zk_proof_verified |-> FALSE,
     optimal_venue_id |-> 0]

InitializedStorage(initializer, commitment_hash) ==
    [commitment_hash |-> commitment_hash, user |-> initializer, revealed |-> FALSE,
     escrow_pda |-> <<initializer, commitment_hash>>]

\* initialize_enhanced with the accounts InitializeEnhanced admits: both
\* program-derived accounts are created (init), so neither may exist yet; the
\* deposit account is the initializer's and of the mint deposit_mint; the
\* receive account is any token account
initialize_enhanced(chain, initializer, deposit, receive, deposit_mint, commitment_hash, taker_amount) ==
    IF chain.escrow[<<initializer, commitment_hash>>] # Absent
    THEN EscrowOutcome(Err("AccountAlreadyInUse"), chain)
    ELSE IF chain.storage[<<initializer, commitment_hash>>] # Absent
    THEN EscrowOutcome(Err("AccountAlreadyInUse"), chain)
    ELSE IF deposit[1] # initializer
    THEN EscrowOutcome(Err("ConstraintRaw"), chain)
    ELSE IF deposit[2] # deposit_mint
    THEN EscrowOutcome(Err("ConstraintRaw"), chain)
    ELSE EscrowOutcome(Ok(Unit),
            [chain EXCEPT !.escrow[<<initializer, commitment_hash>>] =
                              InitializedEscrow(initializer, deposit, receive, commitment_hash,
                                                taker_amount),
                          !.storage[<<initializer, commitment_hash>>] =
                              InitializedStorage(initializer, commitment_hash)])

\* verify_token_validity_proof(&proof_data, inputs)
verify_token_validity_proof(proof_data, inputs) ==
    IF ~(Len(inputs) >= 2) THEN Err("InsufficientPublicInputs")
    ELSE IF ~(inputs[1] >= inputs[2]) THEN Err("InvalidTokenRatio")
    ELSE Ok(TRUE)

\* verify_routing_proof(&proof_data, inputs)
verify_routing_proof(proof_data, inputs) == Ok(TRUE)

\* the accounts verify_zk_proofs writes once both proofs are accepted
ProofsStored(chain, key, validity_proof, routing_proof, inputs) ==
    [chain EXCEPT !.batch[key] = [validity_proof |-> validity_proof, routing_proof |-> routing_proof,
                                  public_inputs |-> inputs, verified |-> TRUE],
                  !.escrow[key].zk_proof_verified = TRUE]

\* verify_zk_proofs after the validity proof check returned validity_result
VerifyAfterValidity(chain, key, validity_proof, routing_proof, inputs, validity_result) ==
    IF ~validity_result.ok THEN EscrowOutcome(validity_result, chain)
    ELSE IF ~validity_result.val THEN EscrowOutcome(Err("InvalidValidityProof"), chain)
    ELSE IF Len(inputs) > 2
            /\ ~verify_routing_proof(routing_proof, SubSeq(inputs, 3, Len(inputs))).ok
    THEN EscrowOutcome(verify_routing_proof(routing_proof, SubSeq(inputs, 3, Len(inputs))),
                       chain)
    ELSE IF Len(inputs) > 2
            /\ ~verify_routing_proof(routing_proof, SubSeq(inputs, 3, Len(inputs))).val
    THEN EscrowOutcome(Err("InvalidRoutingProof"), chain)
    ELSE EscrowOutcome(Ok(Unit), ProofsStored(chain, key, validity_proof, routing_proof, inputs))

\* mutant of verify_zk_proofs: the signer is not compared with the escrow's initializer
verify_zk_proofs_AnySigner(chain, key, initializer, validity_proof, routing_proof, inputs) ==
    IF chain.escrow[key] = Absent THEN EscrowOutcome(Err("AccountNotInitialized"), chain)
    ELSE IF ~(Len(inputs) <= 10) THEN EscrowOutcome(Err("TooManyPublicInputs"), chain)
    ELSE VerifyAfterValidity(chain, key, validity_proof, routing_proof, inputs,
             verify_token_validity_proof(validity_proof,
                                         SubSeq(inputs, 1, Min(2, Len(inputs)))))

\* verify_zk_proofs on the escrow at key, signed by initializer; the proof
\* batch is the one derived from the escrow (init_if_needed)
verify_zk_proofs(chain, key, initializer, validity_proof, routing_proof, inputs) ==
    IF chain.escrow[key] = Absent THEN EscrowOutcome(Err("AccountNotInitialized"), chain)
    ELSE IF chain.escrow[key].initializer_key # initializer
    THEN EscrowOutcome(Err("InvalidInitializer"), chain)
    ELSE IF ~(Len(inputs) <= 10) THEN EscrowOutcome(Err("TooManyPublicInputs"), chain)
    ELSE VerifyAfterValidity(chain, key, validity_proof, routing_proof, inputs,
             verify_token_validity_proof(validity_proof,
                                         SubSeq(inputs, 1, Min(2, Len(inputs)))))

\* the accounts reveal_and_verify writes
Revealed(chain, storage_key, escrow_key, order_details) ==
    [chain EXCEPT !.escrow[escrow_key].initializer_amount = order_details.token_amount,
                  !.escrow[escrow_key].optimal_venue_id = order_details.preferred_venue,
                  !.storage[storage_key].revealed = TRUE]

\* the body of reveal_and_verify, the account constraints being met
RevealChecked(chain, storage_key, escrow_key, order_details, computed_hash) ==
    IF ~computed_hash.ok THEN EscrowOutcome(computed_hash, chain)
    ELSE IF ~(computed_hash.val = chain.storage[storage_key].commitment_hash)
    THEN EscrowOutcome(Err("InvalidCommitmentReveal"), chain)
    ELSE EscrowOutcome(Ok(Unit), Revealed(chain, storage_key, escrow_key, order_details))

\* mutant of reveal_and_verify: a revealed commitment is accepted again
reveal_and_verify_Repeatable(chain, storage_key, escrow_key, initializer, order_details, nonce) ==
    IF chain.storage[storage_key] = Absent \/ chain.escrow[escrow_key] = Absent
    THEN EscrowOutcome(Err("AccountNotInitialized"), chain)
    ELSE IF chain.storage[storage_key].user # initializer
    THEN EscrowOutcome(Err("InvalidInitializer"), chain)
    ELSE IF chain.escrow[escrow_key].commitment_hash # chain.storage[storage_key].commitment_hash
    THEN EscrowOutcome(Err("CommitmentMismatch"), chain)
    ELSE RevealChecked(chain, storage_key, escrow_key, order_details,
                       compute_commitment_hash(order_details, nonce))

\* reveal_and_verify on the commitment storage and the escrow given, signed by initializer
reveal_and_verify(chain, storage_key, escrow_key, initializer, order_details, nonce) ==
    IF chain.storage[storage_key] = Absent \/ chain.escrow[escrow_key] = Absent
    THEN EscrowOutcome(Err("AccountNotInitialized"), chain)
    ELSE IF chain.storage[storage_key].user # initializer
    THEN EscrowOutcome(Err("InvalidInitializer"), chain)
    ELSE IF chain.storage[storage_key].revealed
    THEN EscrowOutcome(Err("AlreadyRevealed"), chain)
    ELSE IF chain.escrow[escrow_key].commitment_hash # chain.storage[storage_key].commitment_hash
    THEN EscrowOutcome(Err("CommitmentMismatch"), chain)
    ELSE RevealChecked(chain, storage_key, escrow_key, order_details,
                       compute_commitment_hash(order_details, nonce))

\* token::transfer of the token program between two token accounts
token_transfer(token, from, to, authority, amount) ==
    IF token[from] < amount THEN Err("InsufficientFunds")
    ELSE IF from[2] # to[2] THEN Err("MintMismatch")
    ELSE IF from[1] # authority THEN Err("OwnerMismatch")
    ELSE IF from = to THEN Ok(token)
    ELSE Ok([token EXCEPT ![from] = @ - amount, ![to] = @ + amount])

\* the second transfer, from the vault of the escrow to the account the taker
\* named to receive, signed by the vault authority; then the escrow account
\* is closed
VaultTransfer(chain, escrow_key, taker_receive, token) ==
    IF chain.vault[escrow_key].amount < chain.escrow[escrow_key].initializer_amount
    THEN EscrowOutcome(Err("InsufficientFunds"), chain)
    ELSE IF chain.vault[escrow_key].mint # taker_receive[2]
    THEN EscrowOutcome(Err("MintMismatch"), chain)
    ELSE EscrowOutcome(Ok(Unit),
            [chain EXCEPT !.token = [token EXCEPT ![taker_receive] =
                                        @ + chain.escrow[escrow_key].initializer_amount],
                          !.vault[escrow_key].amount = @ - chain.escrow[escrow_key].initializer_amount,
                          !.escrow[escrow_key] = Absent])

\* the body of execute_atomic_swap after the first transfer returned transferred
SwapAfterTakerTransfer(chain, escrow_key, taker_receive, transferred) ==
    IF ~transferred.ok THEN EscrowOutcome(transferred, chain)
    ELSE VaultTransfer(chain, escrow_key, taker_receive, transferred.val)

\* the body of execute_atomic_swap, the account constraints being met
SwapChecked(chain, escrow_key, taker, taker_deposit, taker_receive, initializer_receive) ==
    SwapAfterTakerTransfer(chain, escrow_key, taker_receive,
        token_transfer(chain.token, taker_deposit, initializer_receive, taker,
                       chain.escrow[escrow_key].taker_amount))

\* mutant of execute_atomic_swap: the constraints on the escrow, the storage
\* and the batch are tested before the vault account is loaded
execute_atomic_swap_ConstraintsFirst(chain, escrow_key, storage_key, batch_key, taker, taker_deposit, taker_receive, initializer_receive) ==
    IF chain.escrow[escrow_key] = Absent \/ chain.storage[storage_key] = Absent
          \/ chain.batch[batch_key] = Absent
    THEN EscrowOutcome(Err("AccountNotInitialized"), chain)
    ELSE IF ~chain.escrow[escrow_key].zk_proof_verified
    THEN EscrowOutcome(Err("ProofsNotVerified"), chain)
    ELSE IF ~chain.storage[storage_key].revealed
    THEN EscrowOutcome(Err("CommitmentNotRevealed"), chain)
    ELSE IF ~(chain.storage[storage_key].escrow_pda = escrow_key)
    THEN EscrowOutcome(Err("EscrowMismatch"), chain)
    ELSE IF ~chain.batch[batch_key].verified
    THEN EscrowOutcome(Err("ProofsNotVerified"), chain)
    ELSE IF chain.vault[escrow_key] = Absent
    THEN EscrowOutcome(Err("AccountNotInitialized"), chain)
    ELSE SwapChecked(chain, escrow_key, taker, taker_deposit, taker_receive, initializer_receive)

\* execute_atomic_swap on the accounts given, signed by taker: the accounts
\* are loaded first, the vault among them, then the constraints are tested
execute_atomic_swap(chain, escrow_key, storage_key, batch_key, taker, taker_deposit, taker_receive, initializer_receive) ==
    IF chain.escrow[escrow_key] = Absent \/ chain.storage[storage_key] = Absent
          \/ chain.batch[batch_key] = Absent \/ chain.vault[escrow_key] = Absent
    THEN EscrowOutcome(Err("AccountNotInitialized"), chain)
    ELSE IF ~chain.escrow[escrow_key].zk_proof_verified
    THEN EscrowOutcome(Err("ProofsNotVerified"), chain)
    ELSE IF ~chain.storage[storage_key].revealed
    THEN EscrowOutcome(Err("CommitmentNotRevealed"), chain)
    ELSE IF ~(chain.storage[storage_key].escrow_pda = escrow_key)
    THEN EscrowOutcome(Err("EscrowMismatch"), chain)
    ELSE IF ~chain.batch[batch_key].verified
    THEN EscrowOutcome(Err("ProofsNotVerified"), chain)
    ELSE SwapChecked(chain, escrow_key, taker, taker_deposit, taker_receive, initializer_receive)

(***************************************************************************)
(* The original escrow: make_offer, take_offer and refund_offer are        *)
(* declared in lib.rs and their errors in error.rs; the handlers are read  *)
(* off these.  An offer is of tokens of mint A for tokens of mint B, paid  *)
(* from and into the accounts of the maker and of the taker; the tokens    *)
(* offered wait in an account of the offer, which is not the vault of an   *)
(* enhanced escrow.                                                        *)
(***************************************************************************)

\* make_offer(id, token_a_offered_amount, token_b_wanted_amount), signed by maker
make_offer(chain, maker, id, token_a_offered_amount, token_b_wanted_amount) ==
    IF chain.offer[<<maker, id>>] # Absent
    THEN EscrowOutcome(Err("AccountAlreadyInUse"), chain)
    ELSE IF token_a_offered_amount = 0 \/ token_b_wanted_amount = 0
    THEN EscrowOutcome(Err("InvalidAmount"), chain)
    ELSE IF chain.token[<<maker, "A">>] < token_a_offered_amount
    THEN EscrowOutcome(Err("InsufficientMakerBalance"), chain)
    ELSE EscrowOutcome(Ok(Unit),
             [chain EXCEPT !.token[<<maker, "A">>] = @ - token_a_offered_amount,
                           !.offer[<<maker, id>>] =
                               [token_b_wanted_amount |-> token_b_wanted_amount,
                                vault |-> token_a_offered_amount]])

\* take_offer on the offer given, signed by taker
take_offer(chain, offer_key, taker) ==
    IF chain.offer[offer_key] = Absent
    THEN EscrowOutcome(Err("AccountNotInitialized"), chain)
    ELSE IF chain.token[<<taker, "B">>] < chain.offer[offer_key].token_b_wanted_amount
    THEN EscrowOutcome(Err("InsufficientTakerBalance"), chain)
    ELSE EscrowOutcome(Ok(Unit),
             [chain EXCEPT !.token[<<taker, "B">>] = @ - chain.offer[offer_key].token_b_wanted_amount,
                           !.token[<<offer_key[1], "B">>] = @ + chain.offer[offer_key].token_b_wanted_amount,
                           !.token[<<taker, "A">>] = @ + chain.offer[offer_key].vault,
                           !.offer[offer_key] = Absent])

\* refund_offer on the maker's own offer, signed by maker
refund_offer(chain, maker, id) ==
    IF chain.offer[<<maker, id>>] = Absent
    THEN EscrowOutcome(Err("AccountNotInitialized"), chain)
    ELSE EscrowOutcome(Ok(Unit),
             [chain EXCEPT !.token[<<maker, "A">>] = @ + chain.offer[<<maker, id>>].vault,
                           !.offer[<<maker, id>>] = Absent])

(***************************************************************************)
(* Specification SpecEscrow: two users send the four enhanced-escrow       *)
(* instructions in any order, each naming the accounts it likes, and make, *)
(* take and refund offers of the original escrow.  No escrow, storage,     *)
(* batch, vault or offer account exists at the start, and every token      *)
(* account starts with the same balance.                                   *)
(***************************************************************************)
MaxEscrowSteps == 5

EscrowUsers == {"alice", "bob"}

Mints == {"A", "B"}

TokenAccounts == EscrowUsers \X Mints

\* two orders, of different amounts and venues
OrderSamples ==
    {[token_amount |-> 2, min_receive_amount |-> 1, preferred_venue |-> 1, max_slippage |-> 50],
     [token_amount |-> 9, min_receive_amount |-> 1, preferred_venue |-> 2, max_slippage |-> 50]}

NonceSamples == {ZeroArray(32), Bytes(1, 32)}

\* the commitments made with the first nonce
CommitmentHashes == {hashv(Serialize(order), ZeroArray(32)) : order \in OrderSamples}

EscrowKeys == EscrowUsers \X CommitmentHashes

TakerAmounts == {1}

OfferIds == {1}

OfferKeys == EscrowUsers \X OfferIds

\* pairs of an amount offered and an amount wanted: none offered, none
\* wanted, amounts within a balance, and more offered than a balance
OfferAmounts == {<<0, 2>>, <<2, 0>>, <<2, 2>>, <<4, 2>>}

InputsOf(n, offered, wanted) ==
    [i \in 1..n |-> IF i = 1 THEN offered ELSE IF i = 2 THEN wanted ELSE 7]

\* lists of 0, 1, 2, 3, 10 and 11 public inputs, offering more than, as much as and less than wanted
PublicInputSamples ==
    {InputsOf(0, 5, 3), InputsOf(1, 5, 3), InputsOf(2, 5, 3), InputsOf(2, 3, 3), InputsOf(2, 3, 5),
     InputsOf(3, 5, 3), InputsOf(10, 5, 3), InputsOf(10, 3, 5), InputsOf(11, 5, 3), InputsOf(11, 3, 5)}

\* pairs of a validity proof and a routing proof
ProofPairs ==
    {[validity |-> ZeroArray(256), routing |-> ZeroArray(256)],
     [validity |-> Bytes(1, 256), routing |-> Bytes(2, 256)]}

InitEscrow ==
    /\ NoCircuit
    /\ debug_assertions = TRUE
    /\ IdleProver
    /\ IdleVerifier
    /\ IdleOnChain
    /\ IdleRace
    /\ IdleProgram
    /\ IdleEndian
    /\ IdleCodec
    /\ IdlePackage
    /\ IdleCommit
    /\ escrowChain = [escrow |-> [k \in EscrowKeys |-> Absent],
                      storage |-> [k \in EscrowKeys |-> Absent],
                      batch |-> [k \in EscrowKeys |-> Absent],
                      vault |-> [k \in EscrowKeys |-> Absent],
                      offer |-> [k \in OfferKeys |-> Absent],
                      token |-> [t \in TokenAccounts |-> 3]]
    /\ escrowLast = None
    /\ escrowLog = {}

EscrowFrame ==
    UNCHANGED <<varsCircuit, varsProver, varsVerifier, varsOnChain, varsRace, varsProgram,
                varsEndian, varsCodec, varsPackage, varsCommit>>

\* the instruction is carried out and recorded; event is what the log keeps
\* of it.  Nothing is sent after a failed instruction: it left the chain as
\* it was, so whatever could follow it could be sent in its place.
EscrowStep(event, args, out) ==
    /\ Cardinality(escrowLog) < MaxEscrowSteps
    /\ escrowLast # None => escrowLast.result.ok
    /\ escrowChain' = out.chain
    /\ escrowLast' = [event |-> event, args |-> args, result |-> out.result, before |-> escrowChain]
    /\ escrowLog' = IF out.result.ok THEN escrowLog \cup {event} ELSE escrowLog
    /\ EscrowFrame

\* escrow::initialize_enhanced
InitializeEnhanced(initializer, deposit, receive, deposit_mint, commitment_hash, taker_amount) ==
    EscrowStep([op |-> "initialize_enhanced", escrow |-> <<initializer, commitment_hash>>],
               [initializer |-> initializer, deposit |-> deposit, receive |-> receive,
                deposit_mint |-> deposit_mint, taker_amount |-> taker_amount],
               initialize_enhanced(escrowChain, initializer, deposit, receive, deposit_mint,
                                   commitment_hash, taker_amount))

\* escrow::verify_zk_proofs
VerifyZKProofs(key, initializer, proofs, inputs) ==
    EscrowStep([op |-> "verify_zk_proofs", escrow |-> key],
               [initializer |-> initializer, proofs |-> proofs, public_inputs |-> inputs],
               verify_zk_proofs(escrowChain, key, initializer, proofs.validity, proofs.routing,
                                inputs))

\* escrow::reveal_and_verify
RevealAndVerify(storage_key, escrow_key, initializer, order_details, nonce) ==
    EscrowStep([op |-> "reveal_and_verify", escrow |-> escrow_key, storage |-> storage_key],
               [initializer |-> initializer, order_details |-> order_details, nonce |-> nonce],
               reveal_and_verify(escrowChain, storage_key, escrow_key, initializer, order_details,
                                 nonce))

\* escrow::execute_atomic_swap
ExecuteAtomicSwap(escrow_key, storage_key, batch_key, taker, taker_deposit, taker_receive, initializer_receive) ==
    EscrowStep([op |-> "execute_atomic_swap", escrow |-> escrow_key, storage |-> storage_key,
                batch |-> batch_key],
               [taker |-> taker, taker_deposit |-> taker_deposit,
                taker_receive |-> taker_receive, initializer_receive |-> initializer_receive],
               execute_atomic_swap(escrowChain, escrow_key, storage_key, batch_key, taker,
                                   taker_deposit, taker_receive, initializer_receive))

\* escrow::make_offer
MakeOffer(maker, id, token_a_offered_amount, token_b_wanted_amount) ==
    EscrowStep([op |-> "make_offer", offer |-> <<maker, id>>],
               [maker |-> maker, token_a_offered_amount |-> token_a_offered_amount,
                token_b_wanted_amount |-> token_b_wanted_amount],
               make_offer(escrowChain, maker, id, token_a_offered_amount, token_b_wanted_amount))

\* escrow::take_offer
TakeOffer(offer_key, taker) ==
    EscrowStep([op |-> "take_offer", offer |-> offer_key], [taker |-> taker],
               take_offer(escrowChain, offer_key, taker))

\* escrow::refund_offer
RefundOffer(maker, id) ==
    EscrowStep([op |-> "refund_offer", offer |-> <<maker, id>>], [maker |-> maker],
               refund_offer(escrowChain, maker, id))

Initializing ==
    \E initializer \in EscrowUsers, deposit \in EscrowUsers \X {"A"},
       receive \in EscrowUsers \X {"B"}, deposit_mint \in Mints,
       commitment_hash \in CommitmentHashes, taker_amount \in TakerAmounts :
          InitializeEnhanced(initializer, deposit, receive, deposit_mint, commitment_hash,
                             taker_amount)

\* the commitment to the order of the smaller amount
SmallOrderHash ==
    hashv(Serialize(CHOOSE order \in OrderSamples : order.token_amount = 2), ZeroArray(32))

\* a user initializes an escrow from the user's own deposit account, naming
\* any user's account of mint B as the receive account: alice for either
\* commitment, bob for the first
InitializingToSwap ==
    \E initializer \in EscrowUsers, receive \in EscrowUsers \X {"B"},
       taker_amount \in TakerAmounts :
          \E commitment_hash \in IF initializer = "alice" THEN CommitmentHashes
                                  ELSE {SmallOrderHash} :
             InitializeEnhanced(initializer, <<initializer, "A">>, receive, "A", commitment_hash,
                                taker_amount)

\* the escrow is verified by its initializer with two inputs, offering as much as or less than wanted
VerifyingPlainly ==
    \E key \in EscrowKeys, inputs \in {InputsOf(2, 3, 3), InputsOf(2, 3, 5)} :
        VerifyZKProofs(key, key[1], [validity |-> ZeroArray(256), routing |-> ZeroArray(256)], inputs)

\* any user reveals any order with the first nonce on any storage and the
\* escrow of either user for the same commitment
RevealingPlainly ==
    \E storage_key \in EscrowKeys, escrow_user \in EscrowUsers, initializer \in EscrowUsers,
       order_details \in OrderSamples :
          RevealAndVerify(storage_key, <<escrow_user, storage_key[2]>>, initializer,
                          order_details, ZeroArray(32))

\* the accounts a taker names to pay from: either user's account of mint B
SwapDepositSamples == EscrowUsers \X {"B"}

\* the accounts a taker names to receive the escrowed tokens: either user's
\* account of mint A, and an account of the other mint
SwapReceiveSamples == (EscrowUsers \X {"A"}) \cup {<<"bob", "B">>}

\* any user swaps on any escrow address, with the storage and the proof batch
\* of that escrow or of the other user's escrow for the same commitment, paying
\* from and receiving on the user's own accounts, and paying into the
\* initializer's account of mint B
Swapping ==
    \E escrow_key \in EscrowKeys, storage_user \in EscrowUsers, batch_user \in EscrowUsers,
       taker \in EscrowUsers :
          ExecuteAtomicSwap(escrow_key, <<storage_user, escrow_key[2]>>,
                            <<batch_user, escrow_key[2]>>, taker, <<taker, "B">>, <<taker, "A">>,
                            <<escrow_key[1], "B">>)

\* any user swaps on an existing escrow with its own storage and proof batch,
\* naming any of the token accounts
SwappingWithAccounts ==
    \E escrow_key \in {k \in EscrowKeys : escrowChain.escrow[k] # Absent},
       taker \in EscrowUsers, taker_deposit \in SwapDepositSamples,
       taker_receive \in SwapReceiveSamples, initializer_receive \in EscrowUsers \X {"B"} :
          ExecuteAtomicSwap(escrow_key, escrow_key, escrow_key, taker, taker_deposit,
                            taker_receive, initializer_receive)

\* a user offers tokens of mint A for tokens of mint B
MakingOffer ==
    \E maker \in EscrowUsers, id \in OfferIds, amounts \in OfferAmounts :
          MakeOffer(maker, id, amounts[1], amounts[2])

\* any user takes any offer
TakingOffer ==
    \E offer_key \in OfferKeys, taker \in EscrowUsers : TakeOffer(offer_key, taker)

\* a user takes back the user's own offer
RefundingOffer ==
    \E maker \in EscrowUsers, id \in OfferIds : RefundOffer(maker, id)

NextEscrow ==
    \/ InitializingToSwap
    \/ VerifyingPlainly
    \/ RevealingPlainly
    \/ Swapping
    \/ SwappingWithAccounts
    \/ MakingOffer
    \/ TakingOffer
    \/ RefundingOffer

SpecEscrow == InitEscrow /\ [][NextEscrow]_vars

(***************************************************************************)
(* Specification SpecEscrowProofs: each user may initialize an escrow for  *)
(* the first commitment, and verify_zk_proofs is sent by any user on any   *)
(* escrow address with any of the proofs and input lists.                  *)
(***************************************************************************)
NextEscrowProofs ==
    \/ \E initializer \in EscrowUsers, taker_amount \in TakerAmounts :
          InitializeEnhanced(initializer, <<initializer, "A">>, <<initializer, "B">>, "A",
                             hashv(Serialize(CHOOSE order \in OrderSamples : order.token_amount = 2),
                                   ZeroArray(32)),
                             taker_amount)
    \/ \E key \in EscrowKeys, initializer \in EscrowUsers, proofs \in ProofPairs,
          inputs \in PublicInputSamples :
             VerifyZKProofs(key, initializer, proofs, inputs)

SpecEscrowProofs == InitEscrow /\ [][NextEscrowProofs]_vars

(***************************************************************************)
(* Specification SpecEscrowReveal: escrows are initialized and             *)
(* reveal_and_verify is sent by any user with any order and nonce on any   *)
(* storage and escrow.                                                     *)
(***************************************************************************)
NextEscrowReveal ==
    \/ Initializing
    \/ \E storage_key \in EscrowKeys, escrow_key \in EscrowKeys, initializer \in EscrowUsers,
          order_details \in OrderSamples, nonce \in NonceSamples :
             RevealAndVerify(storage_key, escrow_key, initializer, order_details, nonce)

SpecEscrowReveal == InitEscrow /\ [][NextEscrowReveal]_vars

(***************************************************************************)
(* Claims about the enhanced escrow.                                       *)
(***************************************************************************)
LastEscrowOp(op) == escrowLast # None /\ escrowLast.event.op = op

\* the escrow, storage and batch accounts an execute_atomic_swap names existed before it
SwapStateAccountsExist ==
    /\ escrowLast.before.escrow[escrowLast.event.escrow] # Absent
    /\ escrowLast.before.storage[escrowLast.event.storage] # Absent
    /\ escrowLast.before.batch[escrowLast.event.batch] # Absent

\* the accounts an execute_atomic_swap names all existed before it
SwapAccountsExist ==
    /\ SwapStateAccountsExist
    /\ escrowLast.before.vault[escrowLast.event.escrow] # Absent

\* the three conditions of a swap, on the accounts as they were before it
SwapConditions ==
    /\ escrowLast.before.escrow[escrowLast.event.escrow].zk_proof_verified
    /\ escrowLast.before.storage[escrowLast.event.storage].escrow_pda = escrowLast.event.escrow
    /\ escrowLast.before.storage[escrowLast.event.storage].revealed
    /\ escrowLast.before.batch[escrowLast.event.batch].verified

\* execute_atomic_swap on accounts that all exist, the vault included,
\* succeeds only if the escrow's zk_proof_verified is true, the commitment
\* storage whose escrow_pda is this escrow is revealed, and the proof batch
\* supplied is verified; a successful swap is preceded by a successful
\* verify_zk_proofs on that escrow and a successful reveal_and_verify of its
\* commitment; when a condition fails the swap fails with ProofsNotVerified,
\* CommitmentNotRevealed or EscrowMismatch, and no failed swap moves tokens.
SwapOnlyAfterProofsAndReveal ==
    LastEscrowOp("execute_atomic_swap") =>
        /\ escrowLast.result.ok =>
              /\ SwapAccountsExist /\ SwapConditions
              /\ [op |-> "verify_zk_proofs", escrow |-> escrowLast.event.escrow] \in escrowLog
              /\ \E k \in EscrowKeys :
                    [op |-> "reveal_and_verify", escrow |-> k, storage |-> escrowLast.event.storage]
                        \in escrowLog
        /\ (SwapAccountsExist /\ ~SwapConditions) =>
              \E e \in {"ProofsNotVerified", "CommitmentNotRevealed", "EscrowMismatch"} :
                  IsErr(escrowLast.result, e)
        /\ ~escrowLast.result.ok => escrowChain = escrowLast.before

\* no vault account exists
NoVault == \A k \in EscrowKeys : escrowChain.vault[k] = Absent

C25_UnrevealedWitness ==
    /\ LastEscrowOp("execute_atomic_swap")
    /\ SwapStateAccountsExist
    /\ escrowLast.event.storage = escrowLast.event.escrow
    /\ ~escrowLast.before.storage[escrowLast.event.storage].revealed
    /\ IsErr(escrowLast.result, "AccountNotInitialized")

\* a swap on an escrow that was not verified, with the batch of another
\* escrow, was refused because the vault does not exist
C25_UnverifiedWitness ==
    /\ LastEscrowOp("execute_atomic_swap")
    /\ SwapStateAccountsExist
    /\ ~escrowLast.before.escrow[escrowLast.event.escrow].zk_proof_verified
    /\ IsErr(escrowLast.result, "AccountNotInitialized")

\* the swap moved amount between the two accounts (nothing, in sum, when they are one)
Moved(from_before, from_after, to_before, to_after, same, amount) ==
    IF same THEN from_after = from_before
    ELSE from_after = from_before - amount /\ to_after = to_before + amount

\* the last instruction was a successful swap
SwapSucceeded ==
    /\ LastEscrowOp("execute_atomic_swap")
    /\ escrowLast.result.ok

\* a successful swap paid taker_amount from the taker's account into the
\* receive account the initializer registered in the escrow
TakerPaidInitializer ==
    LET escrow == escrowLast.before.escrow[escrowLast.event.escrow]
        from == escrowLast.args.taker_deposit
        to == escrow.initializer_receive_token_account
    IN  Moved(escrowLast.before.token[from], escrowChain.token[from],
              escrowLast.before.token[to], escrowChain.token[to], from = to, escrow.taker_amount)

\* a successful swap paid initializer_amount from the vault of the escrow into
\* the account the taker named to receive
VaultPaidTaker ==
    LET escrow == escrowLast.before.escrow[escrowLast.event.escrow]
        to == escrowLast.args.taker_receive
    IN  /\ escrowChain.vault[escrowLast.event.escrow].amount =
              escrowLast.before.vault[escrowLast.event.escrow].amount - escrow.initializer_amount
        /\ escrowChain.token[to] = escrowLast.before.token[to] + escrow.initializer_amount

\* an escrow that was swapped does not exist (again)
SwappedEscrowsStayClosed ==
    \A k \in EscrowKeys :
        (\E s \in EscrowKeys, b \in EscrowKeys :
            [op |-> "execute_atomic_swap", escrow |-> k, storage |-> s, batch |-> b] \in escrowLog)
                => escrowChain.escrow[k] = Absent

\* C26: an enhanced escrow is settled at most once: a successful
\* execute_atomic_swap performs both transfers (taker_amount from the taker to
\* the initializer, initializer_amount from the vault to the taker) and closes
\* the escrow account, after which no instruction on that escrow succeeds and
\* initialize_enhanced cannot re-create it.  No swap succeeds while no vault
\* exists, so no reachable state puts the statement to the test.
C26_SettledOnceWithBothTransfers ==
    /\ SwapSucceeded => TakerPaidInitializer /\ VaultPaidTaker
    /\ SwappedEscrowsStayClosed

\* what verify_zk_proofs returns for an existing escrow, from the signer and the inputs alone
ExpectedVerifyResult(escrow, initializer, inputs) ==
    IF escrow.initializer_key # initializer THEN Err("InvalidInitializer")
    ELSE IF Len(inputs) > 10 THEN Err("TooManyPublicInputs")
    ELSE IF Len(inputs) < 2 THEN Err("InsufficientPublicInputs")
    ELSE IF inputs[1] < inputs[2] THEN Err("InvalidTokenRatio")
    ELSE Ok(Unit)

\* C27: verify_zk_proofs sets escrow.zk_proof_verified and proof_batch.verified
\* to true only when the caller is the escrow's initializer, there are 2 to 10
\* public inputs and the first is at least the second; it fails with
\* TooManyPublicInputs for more than 10 inputs, InsufficientPublicInputs for
\* fewer than 2 and InvalidTokenRatio when the first is below the second,
\* leaving both flags unchanged; the outcome does not depend on the validity
\* and routing proof bytes.
C27_VerifyZkProofsOutcome ==
    /\ LastEscrowOp("verify_zk_proofs") /\ escrowLast.before.escrow[escrowLast.event.escrow] # Absent =>
          /\ escrowLast.result =
                ExpectedVerifyResult(escrowLast.before.escrow[escrowLast.event.escrow],
                                     escrowLast.args.initializer, escrowLast.args.public_inputs)
          /\ escrowLast.result.ok =>
                /\ escrowChain.escrow[escrowLast.event.escrow].zk_proof_verified
                /\ escrowChain.batch[escrowLast.event.escrow].verified
    /\ LastEscrowOp("verify_zk_proofs") /\ ~escrowLast.result.ok => escrowChain = escrowLast.before
    /\ \A k \in EscrowKeys :
          /\ escrowChain.batch[k] # Absent =>
                escrowChain.batch[k].verified /\ escrowChain.escrow[k] # Absent
          /\ escrowChain.escrow[k] # Absent =>
                (escrowChain.escrow[k].zk_proof_verified
                    <=> [op |-> "verify_zk_proofs", escrow |-> k] \in escrowLog)
                /\ (escrowChain.escrow[k].zk_proof_verified <=> escrowChain.batch[k] # Absent)

\* C27 witness: ten inputs with arbitrary proof bytes were accepted
C27_Witness ==
    /\ LastEscrowOp("verify_zk_proofs")
    /\ escrowLast.result.ok
    /\ Len(escrowLast.args.public_inputs) = 10
    /\ escrowLast.args.proofs.validity = Bytes(1, 256)

\* each of the three input errors was returned
C27_RefusedWitness(e) == LastEscrowOp("verify_zk_proofs") /\ IsErr(escrowLast.result, e)

C27_TooManyWitness == C27_RefusedWitness("TooManyPublicInputs")

C27_InsufficientWitness == C27_RefusedWitness("InsufficientPublicInputs")

C27_RatioWitness == C27_RefusedWitness("InvalidTokenRatio")

\* the accounts a reveal_and_verify names both existed before it
RevealAccountsExist ==
    /\ escrowLast.before.storage[escrowLast.event.storage] # Absent
    /\ escrowLast.before.escrow[escrowLast.event.escrow] # Absent

\* what reveal_and_verify returns on existing accounts
ExpectedRevealResult(storage, escrow, initializer, order_details, nonce) ==
    IF storage.user # initializer THEN Err("InvalidInitializer")
    ELSE IF storage.revealed THEN Err("AlreadyRevealed")
    ELSE IF escrow.commitment_hash # storage.commitment_hash THEN Err("CommitmentMismatch")
    ELSE IF hashv(Serialize(order_details), nonce) # storage.commitment_hash
    THEN Err("InvalidCommitmentReveal")
    ELSE Ok(Unit)

\* C28: a commitment is revealed at most once and never un-revealed:
\* reveal_and_verify succeeds only if the signer is the committing user,
\* revealed is false, the escrow's commitment hash equals the stored one and
\* hash(order_details || nonce) equals the stored commitment hash; on success
\* it sets revealed and copies token_amount and preferred_venue into the
\* escrow; a failing call leaves revealed, initializer_amount and
\* optimal_venue_id unchanged.
C28_RevealOnce ==
    /\ LastEscrowOp("reveal_and_verify") /\ RevealAccountsExist =>
          /\ escrowLast.result =
                ExpectedRevealResult(escrowLast.before.storage[escrowLast.event.storage],
                                     escrowLast.before.escrow[escrowLast.event.escrow],
                                     escrowLast.args.initializer, escrowLast.args.order_details,
                                     escrowLast.args.nonce)
          /\ escrowLast.result.ok =>
                /\ escrowChain.storage[escrowLast.event.storage].revealed
                /\ escrowChain.escrow[escrowLast.event.escrow].initializer_amount =
                      escrowLast.args.order_details.token_amount
                /\ escrowChain.escrow[escrowLast.event.escrow].optimal_venue_id =
                      escrowLast.args.order_details.preferred_venue
    /\ LastEscrowOp("reveal_and_verify") /\ ~escrowLast.result.ok => escrowChain = escrowLast.before
    /\ \A s \in EscrowKeys :
          escrowChain.storage[s] # Absent =>
              (escrowChain.storage[s].revealed
                  <=> \E k \in EscrowKeys :
                         [op |-> "reveal_and_verify", escrow |-> k, storage |-> s] \in escrowLog)

\* C28 witness: a second reveal of a revealed commitment was refused
C28_Witness ==
    /\ LastEscrowOp("reveal_and_verify")
    /\ IsErr(escrowLast.result, "AlreadyRevealed")
    /\ escrowChain.storage[escrowLast.event.storage].revealed

\* a reveal succeeded, and the other three errors were returned
C28_RevealedWitness == LastEscrowOp("reveal_and_verify") /\ escrowLast.result.ok

C28_RefusedWitness(e) == LastEscrowOp("reveal_and_verify") /\ IsErr(escrowLast.result, e)

C28_SignerWitness == C28_RefusedWitness("InvalidInitializer")

C28_MismatchWitness == C28_RefusedWitness("CommitmentMismatch")

C28_InvalidRevealWitness == C28_RefusedWitness("InvalidCommitmentReveal")

\* a commitment was revealed into the escrow of another user with the same commitment hash
C28_OtherEscrowWitness ==
    /\ LastEscrowOp("reveal_and_verify")
    /\ escrowLast.result.ok
    /\ escrowLast.event.storage # escrowLast.event.escrow

(***************************************************************************)
(* The commit-reveal program (commit-reveal-dapp): a state account with    *)
(* the two deadlines, one commitment account per user and seed, the events *)
(* emitted, and the cluster clock.                                         *)
(***************************************************************************)

\* SHA-256 of the byte strings that are revealed in this model (the digests
\* are those of the real function)
Sha256(data) ==
    CASE data = <<1, 7>> ->
           <<202, 108, 101, 136, 250, 1, 23, 27, 32, 7, 64, 52, 77, 53, 78, 133,
             72, 183, 71, 0, 97, 251, 50, 163, 79, 79, 238, 228, 112, 236, 40, 31>>
      [] data = <<1, 8>> ->
           <<158, 98, 130, 228, 242, 94, 55, 12, 230, 23, 226, 29, 111, 226, 101, 232,
             139, 158, 123, 134, 130, 207, 0, 5, 155, 157, 18, 141, 147, 129, 240, 157>>
      [] data = <<2, 7>> ->
           <<206, 67, 238, 68, 3, 147, 132, 84, 151, 124, 209, 16, 54, 62, 7, 113,
             81, 108, 24, 126, 71, 175, 212, 72, 89, 38, 17, 61, 138, 159, 15, 107>>
      [] data = <<2, 8>> ->
           <<94, 133, 168, 10, 40, 96, 179, 30, 13, 237, 136, 129, 65, 66, 176, 145,
             223, 144, 188, 227, 195, 183, 189, 64, 0, 184, 221, 97, 26, 225, 247, 82>>

\* Borsh encoding of a Vec<u8>: the length as u32, little-endian, then the bytes
BorshVec(bytes) == LeBytes(BigOfInt(Len(bytes)), 4) \o bytes

\* Borsh encoding of a u64
BorshU64(n) == LeBytes(BigOfInt(n), 8)

\* the data of a commit_order instruction after the discriminator:
\* commitment_hash, commitment_index, and None for _zk_proof
CommitOrderData(commitment_hash, commitment_index) ==
    BorshVec(commitment_hash) \o BorshU64(commitment_index) \o <<0>>

\* the third seed of the commitment account.  #[instruction(commitment_index:
\* u64)] reads a u64 from the start of the instruction data, where the
\* handler's first argument, commitment_hash, is encoded; the seed is that
\* u64's to_le_bytes, the same eight bytes
CommitmentSeed(commitment_hash, commitment_index) ==
    SubSeq(CommitOrderData(commitment_hash, commitment_index), 1, 8)

\* the program address of the seeds "commitment", user, seed
CommitmentPda(user, seed) == [commitment_of |-> user, seed |-> seed]

CommitOutcome(result, chain) == [result |-> result, chain |-> chain]

\* the event is appended to the log of the transaction
Emitted(chain, event) == [chain EXCEPT !.events = Append(@, event)]

\* commit_reveal_dapp::initialize_state, signed by authority
initialize_state(chain, authority, commit_deadline, reveal_deadline) ==
    IF chain.state # Absent THEN CommitOutcome(Err("AccountAlreadyInUse"), chain)
    ELSE CommitOutcome(Ok(Unit),
            Emitted([chain EXCEPT !.state = [commit_deadline |-> commit_deadline,
                                             reveal_deadline |-> reveal_deadline,
                                             authority |-> authority,
                                             paused |-> FALSE]],
                    [name |-> "StateInitialized", authority |-> authority,
                     commit_deadline |-> commit_deadline, reveal_deadline |-> reveal_deadline]))

\* the body of commit_order, the account constraints being met
Committed(chain, commitment_key, user, commitment_hash, commitment_index) ==
    IF Len(commitment_hash) # 32 THEN CommitOutcome(Err("InvalidReveal"), chain)
    ELSE CommitOutcome(Ok(Unit),
            Emitted([chain EXCEPT !.commitment[commitment_key] =
                        [commitment_hash |-> commitment_hash,
                         commit_time |-> chain.clock,
                         revealed |-> FALSE,
                         user |-> user,
                         zk_proof_verified |-> FALSE,
                         commitment_index |-> commitment_index]],
                    [name |-> "OrderCommitted", user |-> user,
                     commitment_hash |-> commitment_hash, timestamp |-> chain.clock,
                     commitment_account |-> commitment_key,
                     commitment_index |-> commitment_index]))

\* mutant of commit_order: a commit is accepted at the commit deadline
commit_order_AtDeadline(chain, commitment_key, user, commitment_hash, commitment_index) ==
    IF chain.state = Absent THEN CommitOutcome(Err("AccountNotInitialized"), chain)
    ELSE IF commitment_key # CommitmentPda(user, CommitmentSeed(commitment_hash, commitment_index))
    THEN CommitOutcome(Err("ConstraintSeeds"), chain)
    ELSE IF chain.commitment[commitment_key] # Absent
    THEN CommitOutcome(Err("AccountAlreadyInUse"), chain)
    ELSE IF ~(chain.state.commit_deadline >= chain.clock)
    THEN CommitOutcome(Err("CommitPhaseClosed"), chain)
    ELSE IF chain.state.paused THEN CommitOutcome(Err("ProgramPaused"), chain)
    ELSE Committed(chain, commitment_key, user, commitment_hash, commitment_index)

\* commit_order on the commitment account given, signed by user: the state
\* account is loaded, the commitment account is created at its program
\* address, the constraints on the state are tested, the handler runs
commit_order(chain, commitment_key, user, commitment_hash, commitment_index) ==
    IF chain.state = Absent THEN CommitOutcome(Err("AccountNotInitialized"), chain)
    ELSE IF commitment_key # CommitmentPda(user, CommitmentSeed(commitment_hash, commitment_index))
    THEN CommitOutcome(Err("ConstraintSeeds"), chain)
    ELSE IF chain.commitment[commitment_key] # Absent
    THEN CommitOutcome(Err("AccountAlreadyInUse"), chain)
    ELSE IF ~(chain.state.commit_deadline > chain.clock)
    THEN CommitOutcome(Err("CommitPhaseClosed"), chain)
    ELSE IF chain.state.paused THEN CommitOutcome(Err("ProgramPaused"), chain)
    ELSE Committed(chain, commitment_key, user, commitment_hash, commitment_index)

\* the body of reveal_order, the account constraints being met
RevealedOrder(chain, commitment_key, order_data, secret) ==
    IF Sha256(order_data \o secret) # chain.commitment[commitment_key].commitment_hash
    THEN CommitOutcome(Err("InvalidReveal"), chain)
    ELSE CommitOutcome(Ok(Unit),
            Emitted([chain EXCEPT !.commitment[commitment_key].revealed = TRUE],
                    [name |-> "OrderRevealed", user |-> chain.commitment[commitment_key].user,
                     commitment_account |-> commitment_key, revealed_data |-> order_data,
                     timestamp |-> chain.clock]))

\* mutant of reveal_order: a revealed commitment can be revealed again
reveal_order_Repeatable(chain, commitment_key, user, order_data, secret) ==
    IF chain.commitment[commitment_key] = Absent \/ chain.state = Absent
    THEN CommitOutcome(Err("AccountNotInitialized"), chain)
    ELSE IF chain.commitment[commitment_key].user # user
    THEN CommitOutcome(Err("ConstraintRaw"), chain)
    ELSE IF ~(chain.clock > chain.state.commit_deadline)
    THEN CommitOutcome(Err("RevealNotStarted"), chain)
    ELSE IF ~(chain.clock < chain.state.reveal_deadline)
    THEN CommitOutcome(Err("RevealPhaseClosed"), chain)
    ELSE RevealedOrder(chain, commitment_key, order_data, secret)

\* reveal_order on the commitment account given, signed by user
reveal_order(chain, commitment_key, user, order_data, secret) ==
    IF chain.commitment[commitment_key] = Absent \/ chain.state = Absent
    THEN CommitOutcome(Err("AccountNotInitialized"), chain)
    ELSE IF chain.commitment[commitment_key].user # user
    THEN CommitOutcome(Err("ConstraintRaw"), chain)
    ELSE IF chain.commitment[commitment_key].revealed
    THEN CommitOutcome(Err("AlreadyRevealed"), chain)
    ELSE IF ~(chain.clock > chain.state.commit_deadline)
    THEN CommitOutcome(Err("RevealNotStarted"), chain)
    ELSE IF ~(chain.clock < chain.state.reveal_deadline)
    THEN CommitOutcome(Err("RevealPhaseClosed"), chain)
    ELSE RevealedOrder(chain, commitment_key, order_data, secret)

(***************************************************************************)
(* Specification SpecCommit: two users send the three instructions of the  *)
(* commit-reveal program in any order while the clock advances.            *)
(***************************************************************************)
MaxTime == 3

MaxCommitSteps == 4

CommitUsers == {"alice", "bob"}

Authorities == {"alice"}

DeadlineSamples == {1, 3}

OrderDataSamples == {<<1>>, <<2>>}

SecretSamples == {<<7>>, <<8>>}

\* commitment hashes sent to commit_order: two digests, and a digest with its
\* last byte missing and with one byte more
CommitmentHashSamples ==
    {Sha256(<<1, 7>>), Sha256(<<2, 8>>), SubSeq(Sha256(<<1, 7>>), 1, 31), Sha256(<<1, 7>>) \o <<0>>}

CommitmentIndexSamples == {0, 1}

\* the seeds the program derives
SeedSamples ==
    {CommitmentSeed(h, i) : h \in CommitmentHashSamples, i \in CommitmentIndexSamples}

CommitmentKeys == {CommitmentPda(u, s) : u \in CommitUsers, s \in SeedSamples}

\* the accounts reveal_order is sent: those of the two digests, and one that
\* is never created
RevealKeySamples ==
    {CommitmentPda(u, CommitmentSeed(Sha256(d), 0)) : u \in CommitUsers, d \in {<<1, 7>>, <<2, 8>>}}
        \cup {CommitmentPda("alice", CommitmentSeed(Sha256(<<1, 7>>) \o <<0>>, 0))}

InitCommit ==
    /\ NoCircuit
    /\ debug_assertions = TRUE
    /\ IdleProver
    /\ IdleVerifier
    /\ IdleOnChain
    /\ IdleRace
    /\ IdleProgram
    /\ IdleEndian
    /\ IdleCodec
    /\ IdlePackage
    /\ IdleEscrow
    /\ commitChain = [state |-> Absent,
                      commitment |-> [k \in CommitmentKeys |-> Absent],
                      events |-> <<>>,
                      clock |-> 0]
    /\ commitLast = None

CommitFrame ==
    UNCHANGED <<varsCircuit, varsProver, varsVerifier, varsOnChain, varsRace, varsProgram,
                varsEndian, varsCodec, varsPackage, varsEscrow>>

\* the instruction is carried out and recorded.  Nothing is sent after a
\* failed instruction before the clock moves: it left the chain as it was.
CommitStep(op, args, out) ==
    /\ Len(commitChain.events) < MaxCommitSteps
    /\ commitLast # None => commitLast.result.ok
    /\ commitChain' = out.chain
    /\ commitLast' = [op |-> op, args |-> args, result |-> out.result, before |-> commitChain]
    /\ CommitFrame

\* commit_reveal_dapp::initialize_state
InitializeState(authority, commit_deadline, reveal_deadline) ==
    CommitStep("initialize_state",
               [authority |-> authority, commit_deadline |-> commit_deadline,
                reveal_deadline |-> reveal_deadline],
               initialize_state(commitChain, authority, commit_deadline, reveal_deadline))

\* commit_reveal_dapp::commit_order
CommitOrder(commitment_key, user, commitment_hash, commitment_index) ==
    CommitStep("commit_order",
               [commitment |-> commitment_key, user |-> user,
                commitment_hash |-> commitment_hash, commitment_index |-> commitment_index],
               commit_order(commitChain, commitment_key, user, commitment_hash, commitment_index))

\* commit_reveal_dapp::reveal_order
RevealOrder(commitment_key, user, order_data, secret) ==
    CommitStep("reveal_order",
               [commitment |-> commitment_key, user |-> user, order_data |-> order_data,
                secret |-> secret],
               reveal_order(commitChain, commitment_key, user, order_data, secret))

\* the cluster's clock advances by a second
Tick ==
    /\ commitChain # None
    /\ commitChain.clock < MaxTime
    /\ commitChain' = [commitChain EXCEPT !.clock = @ + 1]
    /\ commitLast' = None
    /\ CommitFrame

NextCommit ==
    \/ \E authority \in Authorities, commit_deadline \in DeadlineSamples,
          reveal_deadline \in DeadlineSamples :
          InitializeState(authority, commit_deadline, reveal_deadline)
    \/ \E user \in CommitUsers, commitment_hash \in CommitmentHashSamples,
          commitment_index \in CommitmentIndexSamples :
          \E commitment_key \in {CommitmentPda(user, CommitmentSeed(commitment_hash, commitment_index)),
                                 CommitmentPda(user, BorshU64(commitment_index))} :
             CommitOrder(commitment_key, user, commitment_hash, commitment_index)
    \/ \E commitment_key \in RevealKeySamples, user \in CommitUsers,
          order_data \in OrderDataSamples, secret \in SecretSamples :
          RevealOrder(commitment_key, user, order_data, secret)
    \/ Tick

SpecCommit == InitCommit /\ [][NextCommit]_vars

(***************************************************************************)
(* Claims about the commit-reveal program.                                 *)
(***************************************************************************)
LastCommitOp(op) == commitLast # None /\ commitLast.op = op

\* the events of the given name emitted so far
EventsNamed(name) ==
    {commitChain.events[i] : i \in {j \in 1..Len(commitChain.events) :
                                       commitChain.events[j].name = name}}

\* the positions in the event log of the reveals of a commitment account
RevealsOf(key) ==
    {i \in 1..Len(commitChain.events) :
        /\ commitChain.events[i].name = "OrderRevealed"
        /\ commitChain.events[i].commitment_account = key}

\* the state account, once created, keeps its deadlines
DeadlinesFixed ==
    (commitLast # None /\ commitLast.before.state # Absent) =>
        commitChain.state = commitLast.before.state

\* C29: the phases are disjoint and ordered by the clock: commit_order
\* succeeds only while now < commit_deadline and the state is not paused,
\* reveal_order only while commit_deadline < now < reveal_deadline; no commit
\* and reveal succeed at the same clock value, neither succeeds at
\* now = commit_deadline, and every successful reveal of a commitment happens
\* at a strictly later clock value than its commit.
C29_PhasesDisjoint ==
    /\ DeadlinesFixed
    /\ LastCommitOp("commit_order") /\ commitLast.result.ok =>
          /\ commitLast.before.clock < commitLast.before.state.commit_deadline
          /\ ~commitLast.before.state.paused
    /\ LastCommitOp("reveal_order") /\ commitLast.result.ok =>
          /\ commitLast.before.state.commit_deadline < commitLast.before.clock
          /\ commitLast.before.clock < commitLast.before.state.reveal_deadline
    /\ \A c \in EventsNamed("OrderCommitted") :
          /\ c.timestamp < commitChain.state.commit_deadline
          /\ commitChain.commitment[c.commitment_account].commit_time = c.timestamp
    /\ \A r \in EventsNamed("OrderRevealed") :
          /\ r.timestamp > commitChain.state.commit_deadline
          /\ r.timestamp < commitChain.state.reveal_deadline
          /\ r.timestamp > commitChain.commitment[r.commitment_account].commit_time
          /\ \A c \in EventsNamed("OrderCommitted") : c.timestamp # r.timestamp

\* C29 witness: a commitment made before the commit deadline was revealed
\* after it
C29_Witness ==
    /\ LastCommitOp("reveal_order")
    /\ commitLast.result.ok
    /\ commitChain.commitment[commitLast.args.commitment].commit_time
          < commitLast.before.state.commit_deadline
    /\ commitLast.before.state.commit_deadline < commitLast.before.clock

\* at the commit deadline itself a commit was refused
C29_CommitAtDeadlineWitness ==
    /\ LastCommitOp("commit_order")
    /\ IsErr(commitLast.result, "CommitPhaseClosed")
    /\ commitLast.before.clock = commitLast.before.state.commit_deadline

\* at the commit deadline itself a reveal was refused
C29_RevealAtDeadlineWitness ==
    /\ LastCommitOp("reveal_order")
    /\ IsErr(commitLast.result, "RevealNotStarted")
    /\ commitLast.before.clock = commitLast.before.state.commit_deadline

\* at the reveal deadline a reveal was refused
C29_RevealClosedWitness ==
    /\ LastCommitOp("reveal_order")
    /\ IsErr(commitLast.result, "RevealPhaseClosed")
    /\ commitLast.before.clock = commitLast.before.state.reveal_deadline

\* the account constraints of commit_order hold of the last call
CommitConstraintsMet ==
    /\ commitLast.before.state # Absent
    /\ commitLast.args.commitment =
          CommitmentPda(commitLast.args.user,
                        CommitmentSeed(commitLast.args.commitment_hash,
                                       commitLast.args.commitment_index))
    /\ commitLast.before.commitment[commitLast.args.commitment] = Absent
    /\ commitLast.before.clock < commitLast.before.state.commit_deadline

\* what reveal_order returns on an existing commitment
ExpectedRevealOrderResult(state, commitment, now, user, order_data, secret) ==
    IF commitment.user # user THEN Err("ConstraintRaw")
    ELSE IF commitment.revealed THEN Err("AlreadyRevealed")
    ELSE IF ~(now > state.commit_deadline) THEN Err("RevealNotStarted")
    ELSE IF ~(now < state.reveal_deadline) THEN Err("RevealPhaseClosed")
    ELSE IF Sha256(order_data \o secret) # commitment.commitment_hash THEN Err("InvalidReveal")
    ELSE Ok(Unit)

\* C30: a commitment is created unrevealed from a hash of exactly 32 bytes
\* (any other length fails with InvalidReveal) and is revealed at most once:
\* reveal_order succeeds only for the signer equal to commitment.user, only
\* while revealed is false, and only if SHA-256(order_data || secret) equals
\* the stored commitment_hash; a failed reveal leaves the commitment as it
\* was, and revealed never returns to false.
C30_RevealedOnce ==
    /\ LastCommitOp("commit_order") /\ commitLast.result.ok =>
          /\ Len(commitLast.args.commitment_hash) = 32
          /\ commitLast.before.commitment[commitLast.args.commitment] = Absent
          /\ commitChain.commitment[commitLast.args.commitment].revealed = FALSE
          /\ commitChain.commitment[commitLast.args.commitment].commitment_hash
                = commitLast.args.commitment_hash
          /\ commitChain.commitment[commitLast.args.commitment].user = commitLast.args.user
    /\ LastCommitOp("commit_order") /\ CommitConstraintsMet =>
          commitLast.result = IF Len(commitLast.args.commitment_hash) = 32 THEN Ok(Unit)
                              ELSE Err("InvalidReveal")
    /\ (LastCommitOp("reveal_order")
           /\ commitLast.before.commitment[commitLast.args.commitment] # Absent) =>
          /\ commitLast.result =
                ExpectedRevealOrderResult(commitLast.before.state,
                                          commitLast.before.commitment[commitLast.args.commitment],
                                          commitLast.before.clock, commitLast.args.user,
                                          commitLast.args.order_data, commitLast.args.secret)
          /\ commitLast.result.ok =>
                commitChain.commitment[commitLast.args.commitment].revealed
    /\ (commitLast # None /\ ~commitLast.result.ok) => commitChain = commitLast.before
    /\ \A k \in CommitmentKeys :
          /\ Cardinality(RevealsOf(k)) <= 1
          /\ RevealsOf(k) # {} <=>
                (commitChain.commitment[k] # Absent /\ commitChain.commitment[k].revealed)

\* C30 witness: a second reveal of a revealed commitment, with the right
\* signer, data and secret, was refused
C30_Witness ==
    /\ LastCommitOp("reveal_order")
    /\ IsErr(commitLast.result, "AlreadyRevealed")
    /\ commitChain.commitment[commitLast.args.commitment].revealed
    /\ commitChain.commitment[commitLast.args.commitment].user = commitLast.args.user
    /\ Sha256(commitLast.args.order_data \o commitLast.args.secret)
          = commitChain.commitment[commitLast.args.commitment].commitment_hash

\* a commitment was created and one was revealed
C30_CommittedWitness == LastCommitOp("commit_order") /\ commitLast.result.ok

C30_RevealedWitness == LastCommitOp("reveal_order") /\ commitLast.result.ok

\* hashes of 31 and of 33 bytes were refused with InvalidReveal
C30_ShortHashWitness ==
    /\ LastCommitOp("commit_order")
    /\ IsErr(commitLast.result, "InvalidReveal")
    /\ Len(commitLast.args.commitment_hash) = 31

C30_LongHashWitness ==
    /\ LastCommitOp("commit_order")
    /\ IsErr(commitLast.result, "InvalidReveal")
    /\ Len(commitLast.args.commitment_hash) = 33

\* a reveal by another signer and a reveal of other data were refused
C30_SignerWitness ==
    /\ LastCommitOp("reveal_order")
    /\ IsErr(commitLast.result, "ConstraintRaw")
    /\ ~commitChain.commitment[commitLast.args.commitment].revealed

C30_MismatchWitness ==
    /\ LastCommitOp("reveal_order")
    /\ IsErr(commitLast.result, "InvalidReveal")
    /\ ~commitChain.commitment[commitLast.args.commitment].revealed

\* the commitment account is not the one of the seeds "commitment", user,
\* commitment_index: that address was refused, and a second commitment of the
\* same user to the same hash under another index found the account in use
C30_IndexSeedRefusedWitness ==
    /\ LastCommitOp("commit_order")
    /\ IsErr(commitLast.result, "ConstraintSeeds")
    /\ commitLast.args.commitment =
          CommitmentPda(commitLast.args.user, BorshU64(commitLast.args.commitment_index))

C30_OtherIndexInUseWitness ==
    /\ LastCommitOp("commit_order")
    /\ IsErr(commitLast.result, "AccountAlreadyInUse")
    /\ commitLast.before.commitment[commitLast.args.commitment].commitment_index
          # commitLast.args.commitment_index

=============================================================================
